---- MODULE Spec2Model ----
(***************************************************************************)
(* Dropmate server core: the in-memory entity store (MemStorage), the ride *)
(* lifecycle REST handlers and the live-channel subscription registry and  *)
(* location relay of registerRoutes.                                       *)
(*                                                                         *)
(* Conventions                                                             *)
(*   - identifiers are strings; JSON null is Null, an absent (undefined)   *)
(*     body field is Undefined, so that the handlers' strict comparisons   *)
(*     (!==) are string inequality;                                        *)
(*   - a nullable number / location / timestamp is None (<<>>) or          *)
(*     Some(v) (<<v>>);                                                    *)
(*   - money is in cents, avgRating in tenths, coordinates in 1e-4 degree; *)
(*   - new Date() reads the logical clock now and advances it.             *)
(***************************************************************************)
EXTENDS Integers, Sequences, FiniteSets, TLC

VARIABLES
  users,              \* MemStorage.users: id -> User
  rides,              \* MemStorage.rides: id -> Ride
  rideSubscriptions,  \* ride id -> set of connections (keys = DOMAIN)
  rideLocations,      \* ride id -> last LocationUpdate (keys = DOMAIN)
  conns,              \* per connection: readyState and the closure's subscribedRideId
  polkadotService,    \* Null or the escrow service handle
  now,                \* the clock read by new Date() / Date.now()
  nRated,             \* history: number of rated complete calls served
  nCompletedBcast,    \* history: per ride, {status: completed} broadcasts by complete
  credited,           \* history: the ratings for which complete updated a user
  res,                \* outcome of the last handler run
  handlers,           \* accept requests in flight: each handler's position and locals
  wire,               \* per connection: the messages sent to it and not yet received
  nSent,              \* history: number of sends the server has made
  received,           \* history: per connection, the send last received
  isConnected,        \* client: useAuth().isConnected
  effectOn,           \* client: the provider's connection effect is set up
  wsRef,              \* client: wsRef.current (0 for null, else a socket)
  sockets,            \* client: readyState of every WebSocket it created
  timers,             \* client: the pending setTimeout handles and their delays
  reconnectTimeoutRef,\* client: reconnectTimeoutRef.current (0 for undefined)
  activeRide,         \* client: the active-ride view (None for null)
  currentLocation,    \* client: the last location shown (None for null)
  cres                \* client: outcome of its last handler run

serverVars == <<users, rides, rideSubscriptions, rideLocations, conns,
                polkadotService, now, nRated, nCompletedBcast, credited, res>>

\* The accept handlers modelled await by await.
handlerVars == <<handlers>>

\* The messages in flight from the server to its connections.
wireVars == <<wire, nSent, received>>

\* The RideProvider of one client.
clientVars == <<isConnected, effectOn, wsRef, sockets, timers,
                reconnectTimeoutRef, activeRide, currentLocation, cres>>

vars == <<serverVars, handlerVars, wireVars, clientVars>>

\* Everything but the store of rides, the clock, the outcome and the messages
\* in flight.
others == <<users, rideSubscriptions, rideLocations, conns,
            polkadotService, nRated, nCompletedBcast, credited,
            handlerVars, clientVars>>

----------------------------------------------------------------------------
(* Bounds *)

MaxNow == 2
MaxRated == 2
MaxSent == 3
MaxSockets == 3

----------------------------------------------------------------------------
(* Values *)

Null == "<null>"
Undefined == "<undefined>"
None == <<>>
Some(v) == <<v>>

Val(o) == o[1]

Min(a, b) == IF a < b THEN a ELSE b

ActiveStatuses == {"waiting", "accepted", "in_progress"}

Loc(lat, lng) == [lat |-> lat, lng |-> lng]

\* The clock after a read of new Date() / Date.now(): a later instant, up to
\* the bound.
Later(t) == Min(t + 1, MaxNow)

----------------------------------------------------------------------------
(* MemStorage.seedDemoData *)

SeedUser(wallet, role, reputation, completedRides, avgRating) ==
  [walletAddress |-> wallet, role |-> role, reputation |-> reputation,
   completedRides |-> completedRides, avgRating |-> avgRating]

SeedUsers ==
  [id \in {"demo-driver-1", "demo-driver-2",
           "demo-customer-1", "demo-customer-2", "demo-customer-3"} |->
     CASE id = "demo-driver-1"   -> SeedUser("0xdriver1...abc", "driver", 78, 45, 47)
       [] id = "demo-driver-2"   -> SeedUser("0xdriver2...def", "driver", 92, 120, 49)
       [] id = "demo-customer-1" -> SeedUser("0xcustomer1...xyz", "customer", 65, 12, 45)
       [] id = "demo-customer-2" -> SeedUser("0xcustomer2...uvw", "customer", 88, 34, 48)
       [] id = "demo-customer-3" -> SeedUser("0xcustomer3...rst", "customer", 72, 8, 43)]

NewRide(customerId, pickup, dropoff, estimatedFare, stakedAmount, createdAt) ==
  [customerId |-> customerId, driverId |-> Null,
   pickup |-> pickup, dropoff |-> dropoff,
   estimatedFare |-> estimatedFare, stakedAmount |-> stakedAmount,
   actualFare |-> None, status |-> "waiting", currentLocation |-> None,
   createdAt |-> createdAt, startedAt |-> None, completedAt |-> None,
   customerRating |-> None, driverRating |-> None,
   customerFeedback |-> Null, driverFeedback |-> Null]

SeedRides ==
  [id \in {"demo-ride-1", "demo-ride-2", "demo-ride-3"} |->
     CASE id = "demo-ride-1" ->
            NewRide("demo-customer-1", Loc(377849, -1224094), Loc(376213, -1223790),
                    2850, 3278, 0)
       [] id = "demo-ride-2" ->
            NewRide("demo-customer-2", Loc(378080, -1224177), Loc(377879, -1224074),
                    1275, 1466, 0)
       [] id = "demo-ride-3" ->
            NewRide("demo-customer-3", Loc(377609, -1224350), Loc(378199, -1224783),
                    1825, 2099, 0)]

----------------------------------------------------------------------------
(* MemStorage reads and writes *)

HasUser(id) == id \in DOMAIN users
HasRide(id) == id \in DOMAIN rides

\* { ...ride, ...updates }: the fields of updates replace or extend those of
\* the record.
Merge(rec, updates) ==
  [f \in DOMAIN rec \cup DOMAIN updates |->
     IF f \in DOMAIN updates THEN updates[f] ELSE rec[f]]

\* Variant: the status and the driver the updates do not name are reset.
updateRide_ResetUnnamed(store, id, updates) ==
  IF id \in DOMAIN store
    THEN [store EXCEPT ![id] =
            Merge(Merge(store[id], [status |-> "waiting", driverId |-> Null]),
                  updates)]
    ELSE store

\* updateRide: a no-op for an unknown id.
updateRide(store, id, updates) ==
  IF id \in DOMAIN store
    THEN [store EXCEPT ![id] = Merge(store[id], updates)]
    ELSE store

updateUser(store, id, updates) ==
  IF id \in DOMAIN store
    THEN [store EXCEPT ![id] = Merge(store[id], updates)]
    ELSE store

\* getActiveRide(userId) !== undefined: an unknown user has no active ride;
\* a customer is matched on customerId, any other role on driverId.
getActiveRide(userId) ==
  IF ~HasUser(userId) THEN {}
  ELSE {r \in DOMAIN rides :
          /\ rides[r].status \in ActiveStatuses
          /\ IF users[userId].role = "customer"
               THEN rides[r].customerId = userId
               ELSE rides[r].driverId = userId}

\* Variant: the rides no driver has started yet.
getAvailableRides_NotStarted ==
  {[rideId |-> r, fare |-> rides[r].estimatedFare] :
     r \in {x \in DOMAIN rides : rides[x].status \in {"waiting", "accepted"}}}

\* getAvailableRides: the waiting rides, each with its id and fare.
getAvailableRides ==
  {[rideId |-> r, fare |-> rides[r].estimatedFare] :
     r \in {x \in DOMAIN rides : rides[x].status = "waiting"}}

----------------------------------------------------------------------------
(* Request inputs *)

\* randomUUID() of createRide.
NewRideIds == {"new-ride-1"}

\* :rideId of the lifecycle requests: the requested ride and an id no ride has.
RideIdInputs == {"new-ride-1", "no-such-ride"}

\* driverId of accept / start bodies: a registered driver, a registered
\* customer, an id no user has, and a body without the field.
DriverIdInputs == {"demo-driver-1", "demo-customer-1", "ghost", Undefined}

\* userId of cancel bodies; Null is a body carrying "userId": null.
UserIdInputs == {"demo-customer-3", "demo-driver-1", "ghost", Undefined, Null}

\* Bodies of complete: the status-only calls of either party, a rating with
\* and without feedback, and two bodies rideCompleteSchema rejects.
CompleteBody(completedBy, rating, feedback) ==
  [completedBy |-> completedBy, rating |-> rating, feedback |-> feedback]

UnratedBodies ==
  {CompleteBody("customer", None, Undefined), CompleteBody("driver", None, Undefined)}

RatedBodies ==
  {CompleteBody("customer", Some(5), "good"), CompleteBody("driver", Some(5), Undefined)}

InvalidBodies ==
  {CompleteBody("customer", Some(6), Undefined), CompleteBody("admin", None, Undefined)}

CompleteBodyInputs == UnratedBodies \cup RatedBodies \cup InvalidBodies

\* The same for the runs about ratings: ratings 1 and 5 by either party and a
\* call without a rating.
RatingBodyInputs ==
  {CompleteBody("customer", Some(5), "good"), CompleteBody("customer", Some(1), Undefined),
   CompleteBody("driver", Some(5), Undefined), CompleteBody("driver", Some(1), "late"),
   CompleteBody("driver", None, Undefined)}

\* customerId of the request bodies of these runs (rideRequestSchema takes
\* any string): a customer and a driver.
RatingCustomerIdInputs == {"demo-customer-3", "demo-driver-1"}
RatingDriverIdInputs == {"demo-driver-1"}

\* Statistics of a user within the ranges of userSchema: a user who has not
\* been rated yet, one whose reputation is a step below its cap, one at the
\* cap with the highest average.
StartStats ==
  {[reputation |-> 50, completedRides |-> 0, avgRating |-> 40],
   [reputation |-> 99, completedRides |-> 10, avgRating |-> 40],
   [reputation |-> 100, completedRides |-> 120, avgRating |-> 50]}

\* Bodies of POST /api/auth/connect: the wallet of a seeded user, an unseen
\* wallet and a body without one; the two roles and a role outside the enum.
WalletInputs == {"0xdriver1...abc", "0xnew", Undefined}
RoleInputs == {"customer", "driver", "admin"}

\* randomUUID() of createUser.
NewUserIds == {"new-user-1"}

\* 50 + Math.floor(Math.random() * 30) and 4.0 + Math.random() * 0.8 (taken
\* to the tenth): the least and the greatest draws.
NewUserStats ==
  {[reputation |-> 50, avgRating |-> 40], [reputation |-> 79, avgRating |-> 47]}

\* The rides and drivers of the requests made while the list is read.
ListRideIdInputs == {"demo-ride-1", "new-ride-1"}
ListDriverIdInputs == {"demo-driver-1", "demo-driver-2"}
ListUserIdInputs == {"demo-customer-1", "demo-customer-3"}

\* Accept requests in flight at once, their rides and their drivers.
RequestIds == {"q1", "q2"}
RaceRideIdInputs == {"demo-ride-1", "demo-ride-2"}
RaceDriverIdInputs == {"demo-driver-1", "demo-driver-2"}

\* (Math.random() - 0.5) * 0.02 for lat and lng.
OffsetInputs == {<<-50, 50>>, <<50, -50>>}

\* Bodies of POST /api/rides/request (pickup A, dropoff B, fare 20, stake 23).
CustomerIdInputs == {"demo-customer-3"}
PickupA == Loc(377000, -1224000)
DropoffB == Loc(378000, -1225000)

\* Live connections.
Conns == {"ws1", "ws2"}

\* rideId of live-channel messages; Undefined is a message without rideId.
WsRideIdInputs == {"new-ride-1", Undefined}

\* data of location_update messages; timestamp 0 stands for a missing one.
TimedSample == [lat |-> 377850, lng |-> -1224090, timestamp |-> 7, speed |-> Some(30)]
UntimedSample == [lat |-> 377000, lng |-> -1224000, timestamp |-> 0, speed |-> None]
LaterSample == [lat |-> 377900, lng |-> -1224200, timestamp |-> 8, speed |-> None]
SampleInputs == {TimedSample}

\* The client's views of a ride, as GET /api/rides/active answers them.
RideView(id, status, driverId) ==
  [id |-> id, status |-> status, driverId |-> driverId,
   customerId |-> "demo-customer-3", pickup |-> PickupA, estimatedFare |-> 2000]

ActiveRideInputs ==
  {None, Some(RideView("new-ride-1", "waiting", Null)),
   Some(RideView("demo-ride-1", "in_progress", "demo-driver-1"))}

\* Messages as they arrive at the client: whether JSON.parse returns, and the
\* type and data of what it returns.
ClientMsg(parses, type, data) == [parses |-> parses, type |-> type, data |-> data]

ClientMessageInputs ==
  {ClientMsg(FALSE, Undefined, None),
   ClientMsg(TRUE, "location_update", Some(TimedSample)),
   ClientMsg(TRUE, "ride_status", None),
   ClientMsg(TRUE, "ride_status",
             Some([status |-> "accepted", driverId |-> "demo-driver-1",
                   currentLocation |-> Loc(377050, -1223950),
                   driver |-> Some([address |-> "0xdriver1...abc", rating |-> 47, reputation |-> 78])])),
   ClientMsg(TRUE, "ride_status", Some([status |-> "completed"]))}

\* Messages as they arrive on a connection: whether JSON.parse returns,
\* whether it returns an object, and the object's type, rideId and data.
Raw(parses, isObject, type, rideIdType, rideId, data) ==
  [parses |-> parses, isObject |-> isObject, type |-> type,
   rideIdType |-> rideIdType, rideId |-> rideId, data |-> data]

\* '{oops', 'null', {"type":"ping"}, {"rideId":"new-ride-1"} and
\* {"type":"subscribe","rideId":42}.
MalformedRawInputs ==
  {Raw(FALSE, FALSE, Undefined, "absent", Undefined, None),
   Raw(TRUE, FALSE, Undefined, "absent", Undefined, None),
   Raw(TRUE, TRUE, "ping", "absent", Undefined, None),
   Raw(TRUE, TRUE, Undefined, "string", "new-ride-1", None),
   Raw(TRUE, TRUE, "subscribe", "number", "42", None)}

\* Messages that pass the schema: the three commands, a location_update
\* without data and a ride_status, which only the server sends.
WellFormedRawInputs ==
  {Raw(TRUE, TRUE, "subscribe", "string", "new-ride-1", None),
   Raw(TRUE, TRUE, "subscribe", "string", "demo-ride-1", None),
   Raw(TRUE, TRUE, "unsubscribe", "absent", Undefined, None),
   Raw(TRUE, TRUE, "location_update", "string", "new-ride-1", Some(TimedSample)),
   Raw(TRUE, TRUE, "location_update", "string", "new-ride-1", None),
   Raw(TRUE, TRUE, "ride_status", "absent", Undefined, None)}

RawInputs == MalformedRawInputs \cup WellFormedRawInputs

\* The same for the runs with two connections: two ride ids, two samples.
LiveRideIdInputs == {"new-ride-1", "demo-ride-1"}
LiveSampleInputs == {TimedSample, LaterSample}

----------------------------------------------------------------------------
(* Responses and broadcasts *)

\* The outcome of the last handler run: the HTTP status it answered with
\* (0 for a live-channel handler), the message field of an error answer, the
\* message it sent over the live channel and the connections it sent it to.
Result(op, code, message, msg, to) ==
  [op |-> op, code |-> code, message |-> message, msg |-> msg, to |-> to]

Outcome(code, message) == [code |-> code, message |-> message]

Ok == Outcome(200, "")

Rejected(op, outcome) == Result(op, outcome.code, outcome.message, None, {})

\* Variant: a status message goes to every open connection.
RideStatusRecipients_Everyone(rideId) ==
  {c \in Conns : conns[c].state = "open"}

\* broadcastRideStatus: the open connections subscribed to the ride.
RideStatusRecipients(rideId) ==
  IF rideId \in DOMAIN rideSubscriptions
    THEN {c \in rideSubscriptions[rideId] : conns[c].state = "open"}
    ELSE {}

\* Variant: a message overtakes those sent before it.
Enqueue_First(stream, m) == <<m>> \o stream

\* client.send(message): the message follows, on the connection's stream, the
\* messages sent to it before.
Enqueue(stream, m) == Append(stream, m)

\* The sends of a handler run: its message joins the stream of every recipient
\* whose stream is followed (DOMAIN wire), tagged with the number of the event
\* among those the server has sent for.
Transmit ==
  LET to == res'.to \cap DOMAIN wire IN
  /\ to # {} => nSent < MaxSent
  /\ nSent' = IF to # {} THEN nSent + 1 ELSE nSent
  /\ wire' = [c \in DOMAIN wire |->
                IF c \in to
                  THEN Enqueue(wire[c], [seq |-> nSent + 1, msg |-> Val(res'.msg)])
                  ELSE wire[c]]
  /\ UNCHANGED received

\* The stream of a connection ends with the connection.
Dropped(streams, c) ==
  [k \in DOMAIN streams |-> IF k = c THEN <<>> ELSE streams[k]]

RideStatusMsg(data) == Some([type |-> "ride_status", data |-> data])

DriverSummary(driverId) ==
  IF HasUser(driverId)
    THEN Some([address |-> users[driverId].walletAddress,
               rating |-> users[driverId].avgRating,
               reputation |-> users[driverId].reputation])
    ELSE None

\* Variant: the key is kept.
DeleteKey_Keep(map, key) == map

\* rideLocations.delete(rideId)
DeleteKey(map, key) == [k \in DOMAIN map \ {key} |-> map[k]]

\* map.set(key, value)
SetKey(map, key, value) ==
  [k \in DOMAIN map \cup {key} |-> IF k = key THEN value ELSE map[k]]

----------------------------------------------------------------------------
(* POST /api/rides/:rideId/accept *)

\* rideAcceptSchema: driverId must be a string.
AcceptBodyValid(driverId) == driverId \notin {Undefined, Null}

\* Variant: the ride's status is not looked at.
AcceptOutcome_NoStatusCheck(rideId, driverId) ==
  IF ~AcceptBodyValid(driverId) THEN Outcome(400, "Invalid request")
  ELSE IF ~HasRide(rideId) THEN Outcome(404, "Ride not found")
  ELSE IF getActiveRide(driverId) # {}
    THEN Outcome(400, "You already have an active ride")
  ELSE Ok

AcceptOutcome(rideId, driverId) ==
  IF ~AcceptBodyValid(driverId) THEN Outcome(400, "Invalid request")
  ELSE IF ~HasRide(rideId) THEN Outcome(404, "Ride not found")
  ELSE IF rides[rideId].status # "waiting"
    THEN Outcome(400, "Ride is no longer available")
  ELSE IF getActiveRide(driverId) # {}
    THEN Outcome(400, "You already have an active ride")
  ELSE Ok

\* Variant: the transition does not record the driver.
AcceptUpdates_NoDriverId(driverId, initialLocation) ==
  [status |-> "accepted", currentLocation |-> Some(initialLocation)]

\* The field-set of the accept transition.
AcceptUpdates(driverId, initialLocation) ==
  [driverId |-> driverId, status |-> "accepted",
   currentLocation |-> Some(initialLocation)]

Accept(rideId, driverId) ==
  LET outcome == AcceptOutcome(rideId, driverId) IN
  IF outcome # Ok
    THEN /\ res' = Rejected("accept", outcome)
         /\ UNCHANGED <<rides, now, others, wireVars>>
    ELSE \E offset \in OffsetInputs :
           LET ride == rides[rideId]
               initialLocation == Loc(ride.pickup.lat + offset[1],
                                      ride.pickup.lng + offset[2])
           IN
           /\ rides' = updateRide(rides, rideId,
                                  AcceptUpdates(driverId, initialLocation))
           /\ res' = Result("accept", 200, "",
                            RideStatusMsg([status |-> "accepted",
                                           driverId |-> driverId,
                                           currentLocation |-> initialLocation,
                                           driver |-> DriverSummary(driverId)]),
                            RideStatusRecipients(rideId))
           /\ Transmit
           /\ UNCHANGED <<now, others>>

----------------------------------------------------------------------------
(* POST /api/rides/:rideId/accept, await by await *)

\* A handler run in flight: the request, the place it has reached (the await
\* it is suspended at, or done), the values it has read and its answer.
Handler(rideId, driverId, pc, ride, driver, code) ==
  [rideId |-> rideId, driverId |-> driverId, pc |-> pc,
   ride |-> ride, driver |-> driver, code |-> code]

\* Variant: a request's handler may start while another is suspended at an
\* await.
HandlersIdle_Always == TRUE

\* The storage calls a handler awaits return promises that are already
\* resolved (MemStorage reads and writes its maps within the call), so the
\* rest of the handler runs before the callback of the next request: a
\* handler starts only when none is suspended.
HandlersIdle == \A q \in DOMAIN handlers : handlers[q].pc = "done"

Finished(h, code) == [h EXCEPT !.pc = "done", !.code = code]

\* The handler up to its first await: the body is parsed and getRide reads
\* the store.
AcceptBegin(q, rideId, driverId) ==
  /\ q \notin DOMAIN handlers
  /\ HandlersIdle
  /\ IF ~AcceptBodyValid(driverId)
       THEN /\ handlers' = SetKey(handlers, q,
                                  Handler(rideId, driverId, "done", None, None, 400))
            /\ res' = Rejected("accept", Outcome(400, "Invalid request"))
       ELSE /\ handlers' = SetKey(handlers, q,
                                  Handler(rideId, driverId, "getRide",
                                          IF HasRide(rideId) THEN Some(rides[rideId])
                                                             ELSE None,
                                          None, 0))
            /\ UNCHANGED res
  /\ UNCHANGED <<users, rides, rideSubscriptions, rideLocations, conns,
                 polkadotService, now, nRated, nCompletedBcast, credited,
                 wireVars, clientVars>>

\* The handler from one await to the next, or to its answer.
AcceptStep(q) ==
  /\ q \in DOMAIN handlers
  /\ LET h == handlers[q] IN
     CASE h.pc = "getRide" ->
            \* the checks on the ride read; getActiveRide reads the store
            IF h.ride = None
              THEN /\ handlers' = [handlers EXCEPT ![q] = Finished(h, 404)]
                   /\ res' = Rejected("accept", Outcome(404, "Ride not found"))
                   /\ UNCHANGED <<rides, wireVars>>
            ELSE IF Val(h.ride).status # "waiting"
              THEN /\ handlers' = [handlers EXCEPT ![q] = Finished(h, 400)]
                   /\ res' = Rejected("accept",
                                      Outcome(400, "Ride is no longer available"))
                   /\ UNCHANGED <<rides, wireVars>>
            ELSE IF getActiveRide(h.driverId) # {}
              THEN /\ handlers' = [handlers EXCEPT ![q].pc = "getActiveRide:some"]
                   /\ UNCHANGED <<res, rides, wireVars>>
            ELSE /\ handlers' = [handlers EXCEPT ![q].pc = "getActiveRide:none"]
                 /\ UNCHANGED <<res, rides, wireVars>>
       [] h.pc = "getActiveRide:some" ->
            /\ handlers' = [handlers EXCEPT ![q] = Finished(h, 400)]
            /\ res' = Rejected("accept",
                               Outcome(400, "You already have an active ride"))
            /\ UNCHANGED <<rides, wireVars>>
       [] h.pc = "getActiveRide:none" ->
            \* getUser reads the store
            /\ handlers' = [handlers EXCEPT ![q].pc = "getUser",
                                            ![q].driver = DriverSummary(h.driverId)]
            /\ UNCHANGED <<res, rides, wireVars>>
       [] h.pc = "getUser" ->
            \* updateRide writes the store
            \E offset \in OffsetInputs :
              LET initialLocation == Loc(Val(h.ride).pickup.lat + offset[1],
                                         Val(h.ride).pickup.lng + offset[2])
              IN
              /\ rides' = updateRide(rides, h.rideId,
                                     AcceptUpdates(h.driverId, initialLocation))
              /\ handlers' = [handlers EXCEPT ![q].pc = "updateRide",
                                              ![q].ride = Some(rides'[h.rideId])]
              /\ UNCHANGED <<res, wireVars>>
       [] h.pc = "updateRide" ->
            \* broadcastRideStatus and the answer
            /\ handlers' = [handlers EXCEPT ![q] = Finished(h, 200)]
            /\ res' = Result("accept", 200, "",
                             RideStatusMsg([status |-> "accepted",
                                            driverId |-> h.driverId,
                                            currentLocation |->
                                              Val(Val(h.ride).currentLocation),
                                            driver |-> h.driver]),
                             RideStatusRecipients(h.rideId))
            /\ Transmit
            /\ UNCHANGED rides
       [] OTHER -> FALSE
  /\ UNCHANGED <<users, rideSubscriptions, rideLocations, conns,
                 polkadotService, now, nRated, nCompletedBcast, credited,
                 clientVars>>

----------------------------------------------------------------------------
(* POST /api/rides/:rideId/start *)

\* Variant: any caller may start an accepted ride.
StartOutcome_NoDriverCheck(rideId, driverId) ==
  IF ~HasRide(rideId) THEN Outcome(404, "Ride not found")
  ELSE IF rides[rideId].status # "accepted"
    THEN Outcome(400, "Ride cannot be started")
  ELSE Ok

StartOutcome(rideId, driverId) ==
  IF ~HasRide(rideId) THEN Outcome(404, "Ride not found")
  ELSE IF rides[rideId].status # "accepted"
    THEN Outcome(400, "Ride cannot be started")
  ELSE IF rides[rideId].driverId # driverId THEN Outcome(403, "Not authorized")
  ELSE Ok

StartUpdates(ride) ==
  [status |-> "in_progress", startedAt |-> Some(now),
   currentLocation |-> Some(ride.pickup)]

Start(rideId, driverId) ==
  LET outcome == StartOutcome(rideId, driverId) IN
  IF outcome # Ok
    THEN /\ res' = Rejected("start", outcome)
         /\ UNCHANGED <<rides, now, others, wireVars>>
    ELSE LET ride == rides[rideId] IN
         /\ rides' = updateRide(rides, rideId, StartUpdates(ride))
         /\ res' = Result("start", 200, "",
                          RideStatusMsg([status |-> "in_progress",
                                         startedAt |-> Some(now)]),
                          RideStatusRecipients(rideId))
         /\ now' = Later(now)
         /\ Transmit
         /\ UNCHANGED others

----------------------------------------------------------------------------
(* POST /api/rides/:rideId/complete *)

\* rideCompleteSchema: completedBy is "customer" or "driver", rating is
\* absent or a number in [1, 5].
CompleteBodyValid(completedBy, rating) ==
  /\ completedBy \in {"customer", "driver"}
  /\ rating = None \/ (Val(rating) >= 1 /\ Val(rating) <= 5)

CompleteOutcome(rideId, completedBy, rating) ==
  IF ~CompleteBodyValid(completedBy, rating) THEN Outcome(400, "Invalid request")
  ELSE IF ~HasRide(rideId) THEN Outcome(404, "Ride not found")
  ELSE Ok

NoUpdates == [f \in {} |-> None]

\* Variant: a completed ride is completed again.
CompletesNow_Again(ride) == ride.status \in {"in_progress", "completed"}

\* Variant: an accepted ride is completed without having been started.
CompletesNow_FromAccepted(ride) ==
  ride.status \in {"accepted", "in_progress"} /\ ride.completedAt = None

\* ride.status === 'in_progress' && !ride.completedAt
CompletesNow(ride) == ride.status = "in_progress" /\ ride.completedAt = None

\* Variant: the staked amount is charged as the fare.
StatusUpdates_StakeAsFare(ride) ==
  IF CompletesNow(ride)
    THEN [status |-> "completed", completedAt |-> Some(now),
          actualFare |-> Some(ride.stakedAmount)]
    ELSE NoUpdates

StatusUpdates(ride) ==
  IF CompletesNow(ride)
    THEN [status |-> "completed", completedAt |-> Some(now),
          actualFare |-> Some(ride.estimatedFare)]
    ELSE NoUpdates

\* feedback || null
FeedbackOrNull(feedback) ==
  IF feedback \in {Undefined, Null, ""} THEN Null ELSE feedback

RatingUpdates(completedBy, rating, feedback) ==
  IF completedBy = "customer" /\ rating # None
    THEN [driverRating |-> rating, customerFeedback |-> FeedbackOrNull(feedback)]
  ELSE IF completedBy = "driver" /\ rating # None
    THEN [customerRating |-> rating, driverFeedback |-> FeedbackOrNull(feedback)]
  ELSE NoUpdates

\* The user whose statistics the call updates: the ride's driver for a rating
\* by the customer, the ride's customer for a rating by the driver; Null when
\* the call updates no user.
RatedUser(ride, completedBy, rating) ==
  IF completedBy = "customer" /\ rating # None
    THEN IF ride.driverId \notin {Null, ""} /\ HasUser(ride.driverId)
           THEN ride.driverId ELSE Null
  ELSE IF completedBy = "driver" /\ rating # None
    THEN IF HasUser(ride.customerId) THEN ride.customerId ELSE Null
  ELSE Null

\* Math.round(x) for x = num / den >= 0: floor(x + 1/2).
RoundDiv(num, den) == (2 * num + den) \div (2 * den)

\* Math.round(((avg * count + rating) / (count + 1)) * 10) / 10, in tenths.
NewAvgRating(user, rating) ==
  RoundDiv(user.avgRating * user.completedRides + 10 * rating,
           user.completedRides + 1)

\* Variant: the rated user's average is left as it was.
UserRatingUpdates_KeepAvg(user, rating) ==
  [completedRides |-> user.completedRides + 1,
   reputation |-> Min(100, user.reputation + 2)]

\* Variant: the reputation grows without a cap.
UserRatingUpdates_NoCap(user, rating) ==
  [avgRating |-> NewAvgRating(user, rating),
   completedRides |-> user.completedRides + 1,
   reputation |-> user.reputation + 2]

UserRatingUpdates(user, rating) ==
  [avgRating |-> NewAvgRating(user, rating),
   completedRides |-> user.completedRides + 1,
   reputation |-> Min(100, user.reputation + 2)]

\* One rating that was credited to a user.
Credit(rideId, completedBy, rating, userId) ==
  [rideId |-> rideId, completedBy |-> completedBy, rating |-> rating,
   userId |-> userId]

Complete(rideId, body) ==
  LET completedBy == body.completedBy
      rating == body.rating
      feedback == body.feedback
      outcome == CompleteOutcome(rideId, completedBy, rating)
  IN
  IF outcome # Ok
    THEN /\ res' = Rejected("complete", outcome)
         /\ UNCHANGED <<rides, now, others, wireVars>>
    ELSE LET ride == rides[rideId]
             updates == Merge(StatusUpdates(ride),
                              RatingUpdates(completedBy, rating, feedback))
             rated == RatedUser(ride, completedBy, rating)
             completed == "status" \in DOMAIN updates
         IN
         /\ rating # None => nRated < MaxRated
         /\ users' = IF rated # Null
                       THEN updateUser(users, rated,
                                       UserRatingUpdates(users[rated], Val(rating)))
                       ELSE users
         /\ nRated' = IF rating # None THEN nRated + 1 ELSE nRated
         /\ credited' = IF rated # Null
                          THEN credited \cup {Credit(rideId, completedBy, rating, rated)}
                          ELSE credited
         /\ rides' = updateRide(rides, rideId, updates)
         /\ rideLocations' = IF completed THEN DeleteKey(rideLocations, rideId)
                                          ELSE rideLocations
         /\ nCompletedBcast' =
              IF completed
                THEN [nCompletedBcast EXCEPT ![rideId] = @ + 1]
                ELSE nCompletedBcast
         /\ res' = IF completed
                     THEN Result("complete", 200, "",
                                 RideStatusMsg([status |-> "completed"]),
                                 RideStatusRecipients(rideId))
                     ELSE Result("complete", 200, "", None, {})
         /\ now' = IF completed THEN Later(now) ELSE now
         /\ Transmit
         /\ UNCHANGED <<rideSubscriptions, conns, polkadotService,
                        handlerVars, clientVars>>

----------------------------------------------------------------------------
(* POST /api/rides/:rideId/cancel *)

\* Variant: the ride's status is not looked at.
CancelOutcome_NoStatusCheck(rideId, userId) ==
  IF ~HasRide(rideId) THEN Outcome(404, "Ride not found")
  ELSE IF rides[rideId].customerId # userId /\ rides[rideId].driverId # userId
    THEN Outcome(403, "Not authorized")
  ELSE Ok

CancelOutcome(rideId, userId) ==
  IF ~HasRide(rideId) THEN Outcome(404, "Ride not found")
  ELSE IF rides[rideId].status # "waiting" /\ rides[rideId].status # "accepted"
    THEN Outcome(400, "Ride cannot be cancelled")
  ELSE IF rides[rideId].customerId # userId /\ rides[rideId].driverId # userId
    THEN Outcome(403, "Not authorized")
  ELSE Ok

\* Variant: a cancel records no end time.
CancelUpdates_NoCompletedAt == [status |-> "cancelled"]

CancelUpdates == [status |-> "cancelled", completedAt |-> Some(now)]

\* Variant: the ride is updated before the caller is checked.
Cancel_UpdateBeforeAuth(rideId, userId) ==
  LET outcome == CancelOutcome(rideId, userId) IN
  IF outcome.code \in {400, 404}
    THEN /\ res' = Rejected("cancel", outcome)
         /\ UNCHANGED <<rides, now, others, wireVars>>
    ELSE /\ rides' = updateRide(rides, rideId, CancelUpdates)
         /\ rideLocations' = DeleteKey(rideLocations, rideId)
         /\ res' = IF outcome = Ok
                     THEN Result("cancel", 200, "",
                                 RideStatusMsg([status |-> "cancelled"]),
                                 RideStatusRecipients(rideId))
                     ELSE Rejected("cancel", outcome)
         /\ now' = Later(now)
         /\ Transmit
         /\ UNCHANGED <<users, rideSubscriptions, conns, polkadotService,
                        nRated, nCompletedBcast, credited,
                        handlerVars, clientVars>>

Cancel(rideId, userId) ==
  LET outcome == CancelOutcome(rideId, userId) IN
  IF outcome # Ok
    THEN /\ res' = Rejected("cancel", outcome)
         /\ UNCHANGED <<rides, now, others, wireVars>>
    ELSE /\ rides' = updateRide(rides, rideId, CancelUpdates)
         /\ rideLocations' = DeleteKey(rideLocations, rideId)
         /\ res' = Result("cancel", 200, "",
                          RideStatusMsg([status |-> "cancelled"]),
                          RideStatusRecipients(rideId))
         /\ now' = Later(now)
         /\ Transmit
         /\ UNCHANGED <<users, rideSubscriptions, conns, polkadotService,
                        nRated, nCompletedBcast, credited,
                        handlerVars, clientVars>>

----------------------------------------------------------------------------
(* POST /api/orders/:rideId/confirm-delivery-chain *)

\* atDestination: the body's coordinates are within 50 m of each other;
\* chainOk: polkadotService.confirmDelivery returned rather than threw.
ConfirmDeliveryOutcome(rideId, atDestination, chainOk) ==
  IF polkadotService = Null THEN Outcome(503, "Blockchain service unavailable")
  ELSE IF ~HasRide(rideId) THEN Outcome(404, "Ride not found")
  ELSE IF ~atDestination THEN Outcome(400, "Not at destination yet")
  ELSE IF ~chainOk THEN Outcome(500, "Failed to confirm delivery")
  ELSE Ok

ConfirmDeliveryUpdates ==
  [status |-> "completed", completedAt |-> Some(now), releaseTxHash |-> "0xhash"]

ConfirmDelivery(rideId, atDestination, chainOk) ==
  LET outcome == ConfirmDeliveryOutcome(rideId, atDestination, chainOk) IN
  IF outcome # Ok
    THEN /\ res' = Rejected("confirm-delivery", outcome)
         /\ UNCHANGED <<rides, now, others, wireVars>>
    ELSE /\ rides' = updateRide(rides, rideId, ConfirmDeliveryUpdates)
         /\ res' = Result("confirm-delivery", 200, "",
                          RideStatusMsg([status |-> "completed"]),
                          RideStatusRecipients(rideId))
         /\ now' = Later(now)
         /\ Transmit
         /\ UNCHANGED others

----------------------------------------------------------------------------
(* POST /api/auth/connect *)

\* authConnectSchema: walletAddress is a string, role is customer or driver.
AuthBodyValid(walletAddress, role) ==
  /\ walletAddress \notin {Undefined, Null}
  /\ role \in {"customer", "driver"}

\* Variant: no user is ever found by wallet.
getUserByWallet_None(walletAddress) == {}

\* getUserByWallet: the users whose walletAddress is the given one.
getUserByWallet(walletAddress) ==
  {u \in DOMAIN users : users[u].walletAddress = walletAddress}

\* res.json({ token, user }): the outcome names the user returned.
AuthResult(code, message, userId) ==
  Merge(Result("auth", code, message, None, {}), [user |-> userId])

\* The token (user id and Date.now()) is not kept by the server; balance and
\* name, which no handler reads, are left out of the user record.
AuthConnect(walletAddress, role, pick) ==
  /\ IF ~AuthBodyValid(walletAddress, role)
       THEN /\ res' = AuthResult(400, "Invalid request", Null)
            /\ UNCHANGED users
       ELSE LET found == getUserByWallet(walletAddress) IN
            IF found # {}
              THEN /\ res' = AuthResult(200, "", CHOOSE u \in found : TRUE)
                   /\ UNCHANGED users
              ELSE \E id \in NewUserIds \ DOMAIN users :
                     /\ users' = SetKey(users, id,
                                        SeedUser(walletAddress, role, pick.reputation,
                                                 0, pick.avgRating))
                     /\ res' = AuthResult(200, "", id)
  /\ UNCHANGED <<rides, rideSubscriptions, rideLocations, conns, polkadotService,
                 now, nRated, nCompletedBcast, credited,
                 handlerVars, wireVars, clientVars>>

----------------------------------------------------------------------------
(* POST /api/rides/request *)

\* createRide: randomUUID() is an id no ride has yet.
CreateRide(id, customerId) ==
  /\ id \in NewRideIds \ DOMAIN rides
  /\ rides' = SetKey(rides, id, NewRide(customerId, PickupA, DropoffB, 2000, 2300, now))
  /\ nCompletedBcast' = SetKey(nCompletedBcast, id, 0)
  /\ res' = Result("request", 200, "", None, {})
  /\ now' = Later(now)
  /\ UNCHANGED <<users, rideSubscriptions, rideLocations, conns,
                 polkadotService, nRated, credited,
                 handlerVars, wireVars, clientVars>>

----------------------------------------------------------------------------
(* GET /api/rides/available *)

AvailableResult(list) == Merge(Result("available", 200, "", None, {}), [list |-> list])

AvailableRides ==
  /\ res' = AvailableResult(getAvailableRides)
  /\ UNCHANGED <<rides, now, others, wireVars>>

----------------------------------------------------------------------------
(* Live channel: wss.on('connection'), ws.on('message'), ws.on('close') *)

\* Variant: a set left empty keeps its key.
RemoveSubscriber_KeepKey(subs, rideId, c) ==
  IF rideId \in DOMAIN subs
    THEN [subs EXCEPT ![rideId] = @ \ {c}]
    ELSE subs

\* prevSubs.delete(ws); if (prevSubs.size === 0) rideSubscriptions.delete(id)
RemoveSubscriber(subs, rideId, c) ==
  IF rideId \in DOMAIN subs
    THEN IF subs[rideId] \ {c} = {}
           THEN DeleteKey(subs, rideId)
           ELSE [subs EXCEPT ![rideId] = @ \ {c}]
    ELSE subs

\* if (!rideSubscriptions.has(rideId)) set(rideId, new Set()); get(rideId).add(ws)
AddSubscriber(subs, rideId, c) ==
  IF rideId \in DOMAIN subs
    THEN [subs EXCEPT ![rideId] = @ \cup {c}]
    ELSE SetKey(subs, rideId, {c})

\* Variant: the connection stays in the set of the ride it was watching.
Unsubscribed_Stay(subs, c) == subs

\* if (subscribedRideId) { ... }
Unsubscribed(subs, c) ==
  IF conns[c].subscribedRideId # Null
    THEN RemoveSubscriber(subs, conns[c].subscribedRideId, c)
    ELSE subs

Connect(c) ==
  /\ conns[c].state = "none"
  /\ conns' = [conns EXCEPT ![c] = [state |-> "open", subscribedRideId |-> Null]]
  /\ res' = Result("connect", 0, "", None, {})
  /\ UNCHANGED <<users, rides, rideSubscriptions, rideLocations,
                 polkadotService, now, nRated, nCompletedBcast, credited,
                 handlerVars, wireVars, clientVars>>

Subscribe(c, rideId) ==
  /\ conns[c].state = "open"
  /\ IF rideId \notin {Undefined, ""}
       THEN /\ rideSubscriptions' =
                 AddSubscriber(Unsubscribed(rideSubscriptions, c), rideId, c)
            /\ conns' = [conns EXCEPT ![c].subscribedRideId = rideId]
            /\ res' = IF rideId \in DOMAIN rideLocations
                        THEN Result("subscribe", 0, "",
                                    Some([type |-> "location_update",
                                          data |-> rideLocations[rideId]]),
                                    {c})
                        ELSE Result("subscribe", 0, "", None, {})
       ELSE /\ res' = Result("subscribe", 0, "", None, {})
            /\ UNCHANGED <<rideSubscriptions, conns>>
  /\ Transmit
  /\ UNCHANGED <<users, rides, rideLocations, polkadotService, now,
                 nRated, nCompletedBcast, credited, handlerVars, clientVars>>

Unsubscribe(c) ==
  /\ conns[c].state = "open"
  /\ rideSubscriptions' = Unsubscribed(rideSubscriptions, c)
  /\ conns' = [conns EXCEPT ![c].subscribedRideId = Null]
  /\ res' = Result("unsubscribe", 0, "", None, {})
  /\ UNCHANGED <<users, rides, rideLocations, polkadotService, now,
                 nRated, nCompletedBcast, credited,
                 handlerVars, wireVars, clientVars>>

\* timestamp: messageData.timestamp || Date.now()
LocationUpdateOf(sample) ==
  [lat |-> sample.lat, lng |-> sample.lng,
   timestamp |-> IF sample.timestamp # 0 THEN sample.timestamp ELSE now,
   speed |-> sample.speed]

\* Variant: the sender, if subscribed, is sent its own sample.
LocationRecipients_WithOrigin(rideId, c) ==
  IF rideId \in DOMAIN rideSubscriptions
    THEN {d \in rideSubscriptions[rideId] : conns[d].state = "open"}
    ELSE {}

\* subscribers.forEach: every open subscriber but the sender.
LocationRecipients(rideId, c) ==
  IF rideId \in DOMAIN rideSubscriptions
    THEN {d \in rideSubscriptions[rideId] : d # c /\ conns[d].state = "open"}
    ELSE {}

LocationUpdate(c, rideId, sample) ==
  /\ conns[c].state = "open"
  /\ IF rideId \notin {Undefined, ""}
       THEN LET locationUpdate == LocationUpdateOf(sample) IN
            /\ rideLocations' = SetKey(rideLocations, rideId, locationUpdate)
            /\ rides' = updateRide(rides, rideId,
                          [currentLocation |->
                             Some(Loc(locationUpdate.lat, locationUpdate.lng))])
            /\ res' = IF rideId \in DOMAIN rideSubscriptions
                        THEN Result("location_update", 0, "",
                                    Some([type |-> "location_update",
                                          data |-> locationUpdate]),
                                    LocationRecipients(rideId, c))
                        ELSE Result("location_update", 0, "", None, {})
            /\ now' = IF sample.timestamp # 0 THEN now ELSE Later(now)
       ELSE /\ res' = Result("location_update", 0, "", None, {})
            /\ UNCHANGED <<rides, rideLocations, now>>
  /\ Transmit
  /\ UNCHANGED <<users, rideSubscriptions, conns, polkadotService,
                 nRated, nCompletedBcast, credited, handlerVars, clientVars>>

\* wsMessageSchema: an object whose type is one of the four and whose rideId,
\* if there is one, is a string; data may be anything.
WsMessageTypes == {"location_update", "ride_status", "subscribe", "unsubscribe"}

\* Variant: a rideId of any type passes.
WsMessageValid_AnyRideId(raw) ==
  /\ raw.isObject
  /\ raw.type \in WsMessageTypes

WsMessageValid(raw) ==
  /\ raw.isObject
  /\ raw.type \in WsMessageTypes
  /\ raw.rideIdType \in {"absent", "string"}

\* const { rideId } = parsed.data
RideIdOf(raw) == IF raw.rideIdType = "absent" THEN Undefined ELSE raw.rideId

\* A message that is logged and not acted on.
Drop(c) ==
  /\ conns[c].state = "open"
  /\ res' = Result("dropped", 0, "", None, {})
  /\ UNCHANGED <<users, rides, rideSubscriptions, rideLocations, conns,
                 polkadotService, now, nRated, nCompletedBcast, credited,
                 handlerVars, wireVars, clientVars>>

\* ws.on('message'): JSON.parse, wsMessageSchema.safeParse, then the switch
\* on the type, which has no case for ride_status.
OnMessage(c, raw) ==
  IF ~raw.parses \/ ~WsMessageValid(raw) THEN Drop(c)
  ELSE IF raw.type = "subscribe" THEN Subscribe(c, RideIdOf(raw))
  ELSE IF raw.type = "unsubscribe" THEN Unsubscribe(c)
  ELSE IF raw.type = "location_update" /\ raw.data # None
    THEN LocationUpdate(c, RideIdOf(raw), Val(raw.data))
  ELSE Drop(c)

\* The connection's peer takes the next message off the stream: a WebSocket
\* delivers the messages of one connection in the order of their sends.
Receive(c) ==
  /\ c \in DOMAIN wire
  /\ wire[c] # <<>>
  /\ received' = [received EXCEPT ![c] = Head(wire[c]).seq]
  /\ wire' = [wire EXCEPT ![c] = Tail(@)]
  /\ res' = Result("receive", 0, "", None, {})
  /\ UNCHANGED <<users, rides, rideSubscriptions, rideLocations, conns,
                 polkadotService, now, nRated, nCompletedBcast, credited,
                 nSent, handlerVars, clientVars>>

\* The socket leaves readyState OPEN before its 'close' event is emitted.
BeginClose(c) ==
  /\ conns[c].state = "open"
  /\ conns' = [conns EXCEPT ![c].state = "closing"]
  /\ res' = Result("closing", 0, "", None, {})
  /\ UNCHANGED <<users, rides, rideSubscriptions, rideLocations,
                 polkadotService, now, nRated, nCompletedBcast, credited,
                 handlerVars, wireVars, clientVars>>

\* Variant: the close handler leaves the registry as it is.
Close_NoCleanup(c) ==
  /\ conns[c].state \in {"open", "closing"}
  /\ conns' = [conns EXCEPT ![c] = [state |-> "none", subscribedRideId |-> Null]]
  /\ res' = Result("close", 0, "", None, {})
  /\ wire' = Dropped(wire, c)
  /\ UNCHANGED <<users, rides, rideSubscriptions, rideLocations, polkadotService,
                 now, nRated, nCompletedBcast, credited,
                 handlers, nSent, received, clientVars>>

\* ws.on('close'): after a closing handshake, or at once when the socket
\* is torn down.
Close(c) ==
  /\ conns[c].state \in {"open", "closing"}
  /\ rideSubscriptions' = Unsubscribed(rideSubscriptions, c)
  /\ conns' = [conns EXCEPT ![c] = [state |-> "none", subscribedRideId |-> Null]]
  /\ res' = Result("close", 0, "", None, {})
  /\ wire' = Dropped(wire, c)
  /\ UNCHANGED <<users, rides, rideLocations, polkadotService, now,
                 nRated, nCompletedBcast, credited,
                 handlers, nSent, received, clientVars>>

----------------------------------------------------------------------------
(* RideProvider: the client's live connection and active-ride view *)

\* The delay of the reconnect timer, in milliseconds.
ReconnectDelay == 3000

\* The outcome of the client's last handler run: the message it sent, if
\* any, and the socket it sent it on.
ClientResult(op, sent, on) == [op |-> op, sent |-> sent, on |-> on]

\* wsRef.current?.readyState === WebSocket.OPEN
RefOpen(socks, ref) == ref # 0 /\ socks[ref] = "open"

\* wsRef.current.close(): a socket that is connecting or open starts
\* closing; its close event comes later.
CloseCalled(socks, ref) ==
  IF ref # 0 /\ socks[ref] \in {"connecting", "open"}
    THEN [socks EXCEPT ![ref] = "closing"]
    ELSE socks

\* clearTimeout(reconnectTimeoutRef.current)
Cleared(pending, ref) == {t \in pending : t.id # ref}

\* connectWebSocket: returns at once if wsRef.current is open, and creates a
\* socket otherwise.
WillCreateSocket(socks, ref) == ~RefOpen(socks, ref)

\* connectWebSocket on the given sockets: new WebSocket(wsUrl) and
\* wsRef.current = socket.
ConnectWebSocket(socks) ==
  IF WillCreateSocket(socks, wsRef)
    THEN /\ Len(socks) < MaxSockets
         /\ sockets' = Append(socks, "connecting")
         /\ wsRef' = Len(socks) + 1
    ELSE /\ sockets' = socks
         /\ UNCHANGED wsRef

\* The provider's effect for the value b of isConnected: at the first run
\* and whenever isConnected changes, after the cleanup of the run before.
Effect(b) ==
  /\ ~effectOn \/ b # isConnected
  /\ LET socks == IF effectOn THEN CloseCalled(sockets, wsRef) ELSE sockets
         pending == IF effectOn THEN Cleared(timers, reconnectTimeoutRef) ELSE timers
     IN
     /\ timers' = pending
     /\ IF b THEN ConnectWebSocket(socks)
             ELSE sockets' = socks /\ UNCHANGED wsRef
  /\ isConnected' = b
  /\ effectOn' = TRUE
  /\ cres' = ClientResult("effect", None, 0)
  /\ UNCHANGED <<reconnectTimeoutRef, activeRide, currentLocation,
                 serverVars, handlerVars, wireVars>>

\* The provider is torn down: the cleanup of the last run of the effect.
Unmount ==
  /\ effectOn
  /\ sockets' = CloseCalled(sockets, wsRef)
  /\ timers' = Cleared(timers, reconnectTimeoutRef)
  /\ effectOn' = FALSE
  /\ cres' = ClientResult("unmount", None, 0)
  /\ UNCHANGED <<isConnected, wsRef, reconnectTimeoutRef, activeRide,
                 currentLocation, serverVars, handlerVars, wireVars>>

\* socket.onopen
SocketOpen(k) ==
  /\ k \in 1..Len(sockets)
  /\ sockets[k] = "connecting"
  /\ sockets' = [sockets EXCEPT ![k] = "open"]
  /\ cres' = ClientResult("onopen", None, 0)
  /\ UNCHANGED <<isConnected, effectOn, wsRef, timers, reconnectTimeoutRef,
                 activeRide, currentLocation, serverVars, handlerVars, wireVars>>

\* socket.onclose, once per socket: the connection failed, was closed by the
\* server or by close(). The handle of the timer it sets is named after the
\* socket.
SocketClose(k) ==
  /\ k \in 1..Len(sockets)
  /\ sockets[k] # "closed"
  /\ sockets' = [sockets EXCEPT ![k] = "closed"]
  /\ timers' = timers \cup {[id |-> k, delay |-> ReconnectDelay]}
  /\ reconnectTimeoutRef' = k
  /\ cres' = ClientResult("onclose", None, 0)
  /\ UNCHANGED <<isConnected, effectOn, wsRef, activeRide, currentLocation,
                 serverVars, handlerVars, wireVars>>

\* The callback of the pending reconnect timer with handle k.
TimerFires(k) ==
  /\ \E t \in timers : t.id = k
  /\ timers' = {t \in timers : t.id # k}
  /\ ConnectWebSocket(sockets)
  /\ cres' = ClientResult("timer", None, 0)
  /\ UNCHANGED <<isConnected, effectOn, reconnectTimeoutRef, activeRide,
                 currentLocation, serverVars, handlerVars, wireVars>>

\* Variant: the message's data replaces the view.
MergedView_Replace(prev, data) == IF prev = None THEN None ELSE Some(data)

\* prev ? { ...prev, ...message.data } : null
MergedView(prev, data) ==
  IF prev = None THEN None ELSE Some(Merge(Val(prev), data))

\* socket.onmessage: a message arrives on a socket the client created.
OnClientMessage(k, m) ==
  /\ k \in 1..Len(sockets)
  /\ sockets[k] = "open"
  /\ IF m.parses /\ m.type = "location_update" /\ m.data # None
       THEN /\ currentLocation' = Some(Loc(Val(m.data).lat, Val(m.data).lng))
            /\ UNCHANGED activeRide
     ELSE IF m.parses /\ m.type = "ride_status" /\ m.data # None
       THEN /\ activeRide' = MergedView(activeRide, Val(m.data))
            /\ UNCHANGED currentLocation
     ELSE UNCHANGED <<activeRide, currentLocation>>
  /\ cres' = ClientResult("onmessage", None, 0)
  /\ UNCHANGED <<isConnected, effectOn, wsRef, sockets, timers,
                 reconnectTimeoutRef, serverVars, handlerVars, wireVars>>

\* setActiveRide(ride), as refreshActiveRide and the pages call it.
SetActiveRide(view) ==
  /\ activeRide # view
  /\ activeRide' = view
  /\ cres' = ClientResult("setActiveRide", None, 0)
  /\ UNCHANGED <<isConnected, effectOn, wsRef, sockets, timers,
                 reconnectTimeoutRef, currentLocation,
                 serverVars, handlerVars, wireVars>>

\* Variant: the active ride is not looked at before sending.
MaySendLocation_AnyRide(socks, ref, view) == RefOpen(socks, ref)

\* wsRef.current?.readyState === WebSocket.OPEN && activeRide
MaySendLocation(socks, ref, view) == RefOpen(socks, ref) /\ view # None

\* activeRide.id
ViewId(view) == IF view = None THEN Undefined ELSE Val(view).id

SendLocationUpdate(location) ==
  /\ cres' = IF MaySendLocation(sockets, wsRef, activeRide)
               THEN ClientResult("sendLocationUpdate",
                                 Some([type |-> "location_update",
                                       rideId |-> ViewId(activeRide),
                                       data |-> location]),
                                 wsRef)
               ELSE ClientResult("sendLocationUpdate", None, 0)
  /\ UNCHANGED <<isConnected, effectOn, wsRef, sockets, timers,
                 reconnectTimeoutRef, activeRide, currentLocation,
                 serverVars, handlerVars, wireVars>>

SubscribeToRide(rideId) ==
  /\ cres' = IF RefOpen(sockets, wsRef)
               THEN ClientResult("subscribeToRide",
                                 Some([type |-> "subscribe", rideId |-> rideId]),
                                 wsRef)
               ELSE ClientResult("subscribeToRide", None, 0)
  /\ UNCHANGED <<isConnected, effectOn, wsRef, sockets, timers,
                 reconnectTimeoutRef, activeRide, currentLocation,
                 serverVars, handlerVars, wireVars>>

UnsubscribeFromRide ==
  /\ cres' = IF RefOpen(sockets, wsRef)
               THEN ClientResult("unsubscribeFromRide",
                                 Some([type |-> "unsubscribe"]), wsRef)
               ELSE ClientResult("unsubscribeFromRide", None, 0)
  /\ UNCHANGED <<isConnected, effectOn, wsRef, sockets, timers,
                 reconnectTimeoutRef, activeRide, currentLocation,
                 serverVars, handlerVars, wireVars>>

----------------------------------------------------------------------------
(* One client and the server: the client's sockets are the server's *)
(* connections                                                      *)

\* The server's connection for the client's socket k, and the client's last
\* socket on the server's connection c (0 if none).
ConnOf(k) == IF k % 2 = 1 THEN "ws1" ELSE "ws2"

SocketOf(c) ==
  LET ks == {k \in 1..Len(sockets) : ConnOf(k) = c} IN
  IF ks = {} THEN 0 ELSE CHOOSE k \in ks : \A j \in ks : j <= k

\* wss.on('connection') for a socket the client is connecting.
SessionAccept(c) ==
  /\ SocketOf(c) # 0
  /\ sockets[SocketOf(c)] = "connecting"
  /\ Connect(c)

\* socket.onopen, once the server has accepted the connection.
SessionOpen(k) ==
  /\ k \in 1..Len(sockets)
  /\ SocketOf(ConnOf(k)) = k
  /\ conns[ConnOf(k)].state = "open"
  /\ SocketOpen(k)

\* ws.on('close') for a connection whose socket the client has closed or
\* lost.
SessionClose(c) ==
  /\ SocketOf(c) # 0
  /\ sockets[SocketOf(c)] \in {"closing", "closed"}
  /\ Close(c)

\* subscribeToRide(ride.id) right after setActiveRide(ride), as
\* refreshActiveRide and the pages' effects on activeRide?.id call it, and
\* the server's handling of the message.
SubscribeActiveRide ==
  /\ cres.op = "setActiveRide"
  /\ activeRide # None
  /\ RefOpen(sockets, wsRef)
  /\ Subscribe(ConnOf(wsRef), ViewId(activeRide))

----------------------------------------------------------------------------
(* The server *)

\* The state after construction, for a given content of the store of users and
\* given connections whose streams are followed.
InitWith(seedUsers, followed) ==
  /\ users = seedUsers
  /\ rides = SeedRides
  /\ rideSubscriptions = [k \in {} |-> {}]
  /\ rideLocations = [k \in {} |-> None]
  /\ conns = [c \in Conns |-> [state |-> "none", subscribedRideId |-> Null]]
  /\ polkadotService \in {Null, "escrow"}
  /\ now = 0
  /\ nRated = 0
  /\ nCompletedBcast = [r \in DOMAIN SeedRides |-> 0]
  /\ credited = {}
  /\ res = Result("init", 0, "", None, {})
  /\ handlers = [q \in {} |-> None]
  /\ wire = [c \in followed |-> <<>>]
  /\ nSent = 0
  /\ received = [c \in followed |-> 0]
  /\ isConnected = FALSE
  /\ effectOn = FALSE
  /\ wsRef = 0
  /\ sockets = <<>>
  /\ timers = {}
  /\ reconnectTimeoutRef = 0
  /\ activeRide = None
  /\ currentLocation = None
  /\ cres = ClientResult("init", None, 0)

Init == InitWith(SeedUsers, {})

\* The handlers, with the requests drawn from the given input sets.
NextOver(rideIds, driverIds, userIds, bodies, connIds, wsRideIds, samples) ==
  \/ \E r \in rideIds, d \in driverIds : Accept(r, d)
  \/ \E r \in rideIds, d \in driverIds : Start(r, d)
  \/ \E r \in rideIds, body \in bodies : Complete(r, body)
  \/ \E r \in rideIds, u \in userIds : Cancel(r, u)
  \/ \E r \in rideIds, near \in BOOLEAN, ok \in BOOLEAN :
        ConfirmDelivery(r, near, ok)
  \/ \E id \in NewRideIds, cu \in CustomerIdInputs : CreateRide(id, cu)
  \/ \E c \in connIds : Connect(c)
  \/ \E c \in connIds, r \in wsRideIds : Subscribe(c, r)
  \/ \E c \in connIds : Unsubscribe(c)
  \/ \E c \in connIds, r \in wsRideIds, sm \in samples : LocationUpdate(c, r, sm)
  \/ \E c \in connIds : BeginClose(c)
  \/ \E c \in connIds : Close(c)

\* Two rides, a seeded one and a requested one, through their lives.
NextTwo ==
  NextOver({"demo-ride-1", "new-ride-1"}, {"demo-driver-1", "ghost"},
           {"demo-customer-1", "demo-driver-1"}, UnratedBodies,
           {"ws1"}, {"demo-ride-1"}, SampleInputs)

SpecTwo == Init /\ [][NextTwo]_vars

\* One requested ride through its life, under all the request inputs, with
\* one live connection watching it.
Next ==
  NextOver(RideIdInputs, DriverIdInputs, UserIdInputs, CompleteBodyInputs,
           {"ws1"}, WsRideIdInputs, SampleInputs)

Spec == Init /\ [][Next]_vars

\* Two connections watching the requested ride and a seeded one, while the
\* requested ride goes through its life.
NextLive ==
  NextOver({"new-ride-1"}, {"demo-driver-1"}, {"demo-customer-3"},
           {CompleteBody("driver", None, Undefined)},
           Conns, LiveRideIdInputs, LiveSampleInputs)

SpecLive == Init /\ [][NextLive]_vars

\* The requested ride through its life, watched by ws1, whose stream is
\* followed (what is sent to it is received by its peer later), while ws2
\* sends the driver's locations.
InitOrder == InitWith(SeedUsers, {"ws1"})

NextOrder ==
  \/ \E id \in NewRideIds, cu \in CustomerIdInputs : CreateRide(id, cu)
  \/ \E r \in NewRideIds : Accept(r, "demo-driver-1")
  \/ \E r \in NewRideIds : Start(r, "demo-driver-1")
  \/ \E r \in NewRideIds : Complete(r, CompleteBody("driver", None, Undefined))
  \/ \E r \in NewRideIds : Cancel(r, "demo-customer-3")
  \/ \E c \in Conns : Connect(c)
  \/ \E r \in NewRideIds : Subscribe("ws1", r)
  \/ \E r \in NewRideIds, sm \in LiveSampleInputs : LocationUpdate("ws2", r, sm)
  \/ \E c \in Conns : Receive(c)

SpecOrder == InitOrder /\ [][NextOrder]_vars

\* Two accept requests, each taken from await to await.
NextRace ==
  \/ \E q \in RequestIds, r \in RaceRideIdInputs, d \in RaceDriverIdInputs :
        AcceptBegin(q, r, d)
  \/ \E q \in RequestIds : AcceptStep(q)

SpecRace == Init /\ [][NextRace]_vars

\* The list of available rides, read while a seeded ride and the requested
\* one go through their lives.
NextList ==
  \/ \E id \in NewRideIds : CreateRide(id, "demo-customer-3")
  \/ \E r \in ListRideIdInputs, d \in ListDriverIdInputs : Accept(r, d)
  \/ \E r \in ListRideIdInputs, d \in ListDriverIdInputs : Start(r, d)
  \/ \E r \in ListRideIdInputs : Complete(r, CompleteBody("driver", None, Undefined))
  \/ \E r \in ListRideIdInputs, u \in ListUserIdInputs : Cancel(r, u)
  \/ AvailableRides

SpecList == Init /\ [][NextList]_vars

\* One client and the server: the client connects, loads its active ride,
\* loses connections and reconnects.
NextSession ==
  \/ Effect(TRUE)
  \/ \E c \in Conns : SessionAccept(c)
  \/ \E k \in 1..MaxSockets : SessionOpen(k)
  \/ \E k \in 1..MaxSockets : SocketClose(k)
  \/ \E c \in Conns : SessionClose(c)
  \/ \E k \in 1..MaxSockets : TimerFires(k)
  \/ \E view \in ActiveRideInputs : SetActiveRide(view)
  \/ SubscribeActiveRide

\* What is bound to happen: the server accepts and closes connections, the
\* client's open events and timers fire, a message sent is handled. Nothing
\* makes a connection drop or the user load a ride.
SpecSession ==
  /\ Init
  /\ [][NextSession]_vars
  /\ WF_vars(\E c \in Conns : SessionAccept(c))
  /\ WF_vars(\E k \in 1..MaxSockets : SessionOpen(k))
  /\ WF_vars(\E c \in Conns : SessionClose(c))
  /\ WF_vars(\E k \in 1..MaxSockets : TimerFires(k))
  /\ SF_vars(SubscribeActiveRide)

\* One client: its connection effect, its sockets and timers, the messages
\* it receives and the commands it sends.
NextClient ==
  \/ \E b \in BOOLEAN : Effect(b)
  \/ Unmount
  \/ \E k \in 1..MaxSockets : SocketOpen(k)
  \/ \E k \in 1..MaxSockets : SocketClose(k)
  \/ \E k \in 1..MaxSockets : TimerFires(k)
  \/ \E k \in 1..MaxSockets, m \in ClientMessageInputs : OnClientMessage(k, m)
  \/ \E view \in ActiveRideInputs : SetActiveRide(view)
  \/ \E sm \in SampleInputs : SendLocationUpdate(sm)
  \/ \E r \in NewRideIds : SubscribeToRide(r)
  \/ UnsubscribeFromRide

SpecClient == Init /\ [][NextClient]_vars

\* The live channel message by message: two connections sending well-formed
\* and malformed messages while a ride is requested.
NextWire ==
  \/ \E id \in NewRideIds, cu \in CustomerIdInputs : CreateRide(id, cu)
  \/ \E c \in Conns : Connect(c)
  \/ \E c \in Conns, raw \in RawInputs : OnMessage(c, raw)
  \/ \E c \in Conns : BeginClose(c)
  \/ \E c \in Conns : Close(c)

SpecWire == Init /\ [][NextWire]_vars

\* The store of users: wallets connecting, and one requested ride, whose
\* customer is a customer or the driver who then accepts it, rated by either
\* party, the two users starting from statistics at the edges of their ranges.
InitUsers ==
  \E st \in StartStats :
    InitWith([SeedUsers EXCEPT !["demo-driver-1"] = Merge(@, st),
                               !["demo-customer-3"] = Merge(@, st)], {})

NextUsers ==
  \/ \E w \in WalletInputs, role \in RoleInputs, pick \in NewUserStats :
        AuthConnect(w, role, pick)
  \/ \E id \in NewRideIds, cu \in RatingCustomerIdInputs : CreateRide(id, cu)
  \/ \E r \in NewRideIds, d \in RatingDriverIdInputs : Accept(r, d)
  \/ \E r \in NewRideIds, d \in RatingDriverIdInputs : Start(r, d)
  \/ \E r \in NewRideIds, body \in RatingBodyInputs : Complete(r, body)

SpecUsers == InitUsers /\ [][NextUsers]_vars

----------------------------------------------------------------------------
(* Claims *)

StatusOf(r) == rides[r].status

\* C1: an accept request on a ride whose status is not waiting is answered
\* 400 (with "Ride is no longer available" when its body is valid) and leaves
\* the ride's stored status and driverId as they were.
C1_AcceptNotWaitingConflicts ==
  [][\A r \in RideIdInputs, d \in DriverIdInputs :
       (HasRide(r) /\ StatusOf(r) # "waiting" /\ Accept(r, d))
         => /\ res'.code = 400
            /\ AcceptBodyValid(d) => res'.message = "Ride is no longer available"
            /\ rides'[r].status = rides[r].status
            /\ rides'[r].driverId = rides[r].driverId]_vars

\* C1 witness: an accept was refused because the ride was accepted already.
C1_Witness ==
  /\ res.op = "accept"
  /\ res.code = 400
  /\ res.message = "Ride is no longer available"
  /\ \E r \in DOMAIN rides : rides[r].status = "accepted"

\* C2: no id is the driverId of two rides that are both active, so an accept
\* by a driver who already has an active ride never succeeds.
C2_OneActiveRidePerDriver ==
  \A r1 \in DOMAIN rides, r2 \in DOMAIN rides :
    (/\ r1 # r2
     /\ rides[r1].status \in ActiveStatuses
     /\ rides[r2].status \in ActiveStatuses
     /\ rides[r1].driverId # Null)
      => rides[r1].driverId # rides[r2].driverId

\* C3 as stated: for every ride, driverId is null if and only if its status
\* is waiting.
C3_DriverNullIffWaiting ==
  \A r \in DOMAIN rides : (rides[r].driverId = Null) <=> (rides[r].status = "waiting")

\* C3 as amended: for every ride, driverId is null while its status is
\* waiting and non-null while it is accepted or in_progress, and a cancel
\* leaves driverId as it was (null for a ride cancelled while waiting).
C3_DriverIdMatchesStatus ==
  /\ [](\A r \in DOMAIN rides :
          /\ rides[r].status = "waiting" => rides[r].driverId = Null
          /\ rides[r].status \in {"accepted", "in_progress"}
               => rides[r].driverId # Null)
  /\ [][\A r \in RideIdInputs, u \in UserIdInputs :
          (HasRide(r) /\ Cancel(r, u)) => rides'[r].driverId = rides[r].driverId]_vars

\* C3 witness: a ride was cancelled while waiting and has no driver.
C3_Witness ==
  /\ res.op = "cancel"
  /\ res.code = 200
  /\ \E r \in DOMAIN rides :
       rides[r].status = "cancelled" /\ rides[r].driverId = Null

\* C4: over the complete calls on a ride, rated or not and by either party,
\* the status changes to completed at most once and {status: completed} is
\* broadcast at most once: a complete call changes the status only from
\* in_progress to completed, broadcasts exactly when it does, and a call on a
\* completed ride leaves the status and broadcasts nothing.
C4_CompleteTransitionsOnce ==
  /\ [](\A r \in DOMAIN rides : nCompletedBcast[r] <= 1)
  /\ [][\A r \in RideIdInputs, body \in CompleteBodyInputs :
          (res'.op = "complete" /\ HasRide(r) /\ Complete(r, body))
            => LET changed == rides'[r].status # rides[r].status
                   broadcast == res'.msg = RideStatusMsg([status |-> "completed"])
               IN
               /\ changed => (/\ rides[r].status = "in_progress"
                              /\ rides'[r].status = "completed")
               /\ changed <=> broadcast
               /\ changed <=> (nCompletedBcast'[r] = nCompletedBcast[r] + 1)
               /\ ~changed => (res'.msg = None /\ nCompletedBcast' = nCompletedBcast)
               /\ rides[r].status = "completed" => ~changed]_vars

\* C4 witness: a rating-only complete call was served on a ride that a
\* previous complete call had completed.
C4_Witness ==
  /\ res.op = "complete"
  /\ res.code = 200
  /\ res.msg = None
  /\ nRated > 0
  /\ \E r \in DOMAIN rides :
       /\ rides[r].status = "completed"
       /\ nCompletedBcast[r] = 1
       /\ rides[r].driverRating # None

\* C5: a complete call that repeats a rating already credited (same ride,
\* same completedBy, same rating, same rated user) does not increment the
\* rated user's completedRides again.
C5_SameRatingCreditedOnce ==
  [][\A r \in RideIdInputs, body \in RatedBodies :
       (/\ HasRide(r)
        /\ Complete(r, body)
        /\ Credit(r, body.completedBy, body.rating,
                  RatedUser(rides[r], body.completedBy, body.rating)) \in credited)
         => users' = users]_vars

\* C6: a cancel request on a ride whose status is completed, in_progress or
\* cancelled is answered 400 "Ride cannot be cancelled", whoever the caller
\* is, and changes nothing.
C6_CancelEndedRideConflicts ==
  [][\A r \in RideIdInputs, u \in UserIdInputs :
       (/\ HasRide(r)
        /\ StatusOf(r) \in {"completed", "in_progress", "cancelled"}
        /\ Cancel(r, u))
         => /\ res'.code = 400
            /\ res'.message = "Ride cannot be cancelled"
            /\ res'.msg = None
            /\ UNCHANGED <<users, rides, rideSubscriptions, rideLocations, conns>>]_vars

\* C6 witness: a cancel was refused on a completed ride.
C6_Witness ==
  /\ res.op = "cancel"
  /\ res.code = 400
  /\ \E r \in DOMAIN rides : rides[r].status = "completed"

\* C7: start succeeds only on an accepted ride and for the ride's assigned
\* driverId; another driverId on an accepted ride is answered 403 and a ride
\* not in accepted 400, both leaving the ride unchanged; on success the status
\* becomes in_progress, startedAt is set and currentLocation is the pickup.
C7_StartGuards ==
  [][\A r \in RideIdInputs, d \in DriverIdInputs :
       (HasRide(r) /\ Start(r, d))
         => /\ res'.code = 200
                 <=> (StatusOf(r) = "accepted" /\ rides[r].driverId = d)
            /\ (StatusOf(r) = "accepted" /\ rides[r].driverId # d)
                 => (res'.code = 403 /\ rides' = rides)
            /\ StatusOf(r) # "accepted"
                 => (res'.code = 400 /\ rides' = rides)
            /\ res'.code = 200
                 => /\ rides'[r].status = "in_progress"
                    /\ rides'[r].startedAt = Some(now)
                    /\ rides'[r].currentLocation = Some(rides[r].pickup)
                    /\ rides'[r].driverId = d]_vars

\* C7 witness: a start by another driverId was refused on an accepted ride.
C7_Witness ==
  /\ res.op = "start"
  /\ res.code = 403
  /\ \E r \in DOMAIN rides : rides[r].status = "accepted" /\ rides[r].startedAt = None

\* C8: a cancel of a waiting or accepted ride by a caller whose userId is
\* neither the ride's customerId nor its non-null driverId is answered 403
\* and leaves the ride unchanged.
C8_CancelOnlyByParty ==
  [][\A r \in RideIdInputs, u \in UserIdInputs :
       (/\ HasRide(r)
        /\ StatusOf(r) \in {"waiting", "accepted"}
        /\ u # rides[r].customerId
        /\ ~(rides[r].driverId # Null /\ u = rides[r].driverId)
        /\ Cancel(r, u))
         => (res'.code = 403 /\ rides' = rides)]_vars

\* C9: an accept, start or cancel request that is refused is answered with
\* an error status and message (404 for an unknown ride, 400 for a ride in
\* the wrong state, 403 for an unauthorized caller) and changes no ride, no
\* user, no subscription and no relay entry, and broadcasts nothing.
C9_RefusedRequestsChangeNothing ==
  [][LET Unclean ==
           /\ res'.code # 200
           /\ ~(/\ res'.code \in {400, 403, 404}
                /\ res'.message # ""
                /\ res'.msg = None
                /\ res'.to = {}
                /\ UNCHANGED <<users, rides, rideSubscriptions, rideLocations, conns>>)
         Not404 == res'.code # 404
     IN
     \* a refusal that is not clean is the step of no request, and so is an
     \* answer other than 404 to a request that names no ride
     /\ (res'.op = "accept" /\ Unclean)
          => \A r \in RideIdInputs, d \in DriverIdInputs : ~Accept(r, d)
     /\ (res'.op = "start" /\ Unclean)
          => \A r \in RideIdInputs, d \in DriverIdInputs : ~Start(r, d)
     /\ (res'.op = "cancel" /\ Unclean)
          => \A r \in RideIdInputs, u \in UserIdInputs : ~Cancel(r, u)
     /\ (res'.op = "accept" /\ Not404)
          => \A r \in RideIdInputs, d \in DriverIdInputs :
               (~HasRide(r) /\ AcceptBodyValid(d)) => ~Accept(r, d)
     /\ (res'.op = "start" /\ Not404)
          => \A r \in RideIdInputs, d \in DriverIdInputs :
               ~HasRide(r) => ~Start(r, d)
     /\ (res'.op = "cancel" /\ Not404)
          => \A r \in RideIdInputs, u \in UserIdInputs :
               ~HasRide(r) => ~Cancel(r, u)]_vars

\* C9 witness: a cancel was refused as unauthorized while the ride had a
\* subscriber and a relay entry.
C9_Witness ==
  /\ res.op = "cancel"
  /\ res.code = 403
  /\ "new-ride-1" \in DOMAIN rideSubscriptions
  /\ "new-ride-1" \in DOMAIN rideLocations

C11_RideScenario ==
  [][LET Listed(r) == \E a \in getAvailableRides' : a.rideId = r IN
     /\ \A id \in NewRideIds, cu \in CustomerIdInputs :
          CreateRide(id, cu)
            => (rides'[id].status = "waiting" /\ rides'[id].customerId = cu
                /\ Listed(id))
     /\ \A r \in RideIdInputs, d \in DriverIdInputs :
          /\ (res'.op = "accept" /\ res'.code = 200 /\ Accept(r, d))
               => (rides'[r].status = "accepted" /\ rides'[r].driverId = d
                   /\ ~Listed(r))
          /\ (res'.op = "start" /\ res'.code = 200 /\ Start(r, d))
               => (rides'[r].status = "in_progress" /\ rides'[r].startedAt # None)
     /\ \A r \in RideIdInputs, body \in RatedBodies :
          (/\ res'.op = "complete"
           /\ HasRide(r)
           /\ rides[r].status = "in_progress"
           /\ body.completedBy = "driver"
           /\ Complete(r, body))
            => LET cu == rides[r].customerId
                   n == users[cu].completedRides
                   sum == users[cu].avgRating * n + 10 * Val(body.rating)
                   dev == users'[cu].avgRating * (n + 1) - sum
               IN
               /\ rides'[r].status = "completed"
               /\ rides'[r].actualFare = Some(rides[r].estimatedFare)
               /\ rides'[r].customerRating = body.rating
               /\ users'[cu].completedRides = n + 1
               /\ 2 * dev <= n + 1
               /\ -(n + 1) < 2 * dev]_vars

\* C11 witness: the requested ride went through its life and the driver's
\* rating of 5 moved the customer's average from 4.3 to 4.4.
C11_Witness ==
  /\ res.op = "complete"
  /\ res.code = 200
  /\ "new-ride-1" \in DOMAIN rides
  /\ rides["new-ride-1"].status = "completed"
  /\ rides["new-ride-1"].driverId = "demo-driver-1"
  /\ rides["new-ride-1"].startedAt # None
  /\ rides["new-ride-1"].actualFare = Some(2000)
  /\ rides["new-ride-1"].customerRating = Some(5)
  /\ users["demo-customer-3"].avgRating = 44
  /\ users["demo-customer-3"].completedRides = 9

\* C12: the subscription registry never holds a ride id whose set of
\* connections is empty.
C12_NoEmptySubscriberSet ==
  \A k \in DOMAIN rideSubscriptions : rideSubscriptions[k] # {}

\* C12 witness: after a subscribe both connections are in the seeded ride's
\* set, and the requested ride, for which a location was relayed, has no key.
C12_Witness ==
  /\ res.op = "subscribe"
  /\ conns["ws1"].subscribedRideId = "demo-ride-1"
  /\ conns["ws2"].subscribedRideId = "demo-ride-1"
  /\ DOMAIN rideSubscriptions = {"demo-ride-1"}
  /\ rideSubscriptions["demo-ride-1"] = {"ws1", "ws2"}
  /\ "new-ride-1" \in DOMAIN rideLocations
  /\ res.msg = None

\* C13 as stated: a broadcast for ride R (ride_status of a lifecycle
\* transition, location_update of an ingest) is delivered to exactly the
\* connections subscribed to R, less the origin of a location_update.
C13_DeliveredToAllSubscribers ==
  [][LET SubscribedTo(r) == {c \in Conns : conns[c].subscribedRideId = r} IN
     /\ res'.op = "location_update"
          => \A c \in Conns, r \in LiveRideIdInputs, sm \in LiveSampleInputs :
               LocationUpdate(c, r, sm) => res'.to = SubscribedTo(r) \ {c}
     /\ (res'.op = "accept" /\ res'.code = 200)
          => \A r \in RideIdInputs, d \in DriverIdInputs :
               Accept(r, d) => res'.to = SubscribedTo(r)]_vars

\* C13 as amended: the broadcast is delivered to exactly the connections that
\* are subscribed to R and open, less the origin of a location_update; a
\* subscriber whose socket is closing and has not yet emitted its close is
\* skipped, and so is every connection subscribed to another ride or to none.
C13_DeliveredToOpenSubscribers ==
  [][LET OpenOn(r) ==
           {c \in Conns : conns[c].subscribedRideId = r /\ conns[c].state = "open"}
         Sent == res'.msg # None
     IN
     /\ res'.op = "location_update"
          => \A c \in Conns, r \in LiveRideIdInputs, sm \in LiveSampleInputs :
               LocationUpdate(c, r, sm) => res'.to = OpenOn(r) \ {c}
     /\ (res'.op = "accept" /\ res'.code = 200)
          => \A r \in RideIdInputs, d \in DriverIdInputs :
               Accept(r, d) => (Sent /\ res'.to = OpenOn(r))
     /\ (res'.op = "start" /\ res'.code = 200)
          => \A r \in RideIdInputs, d \in DriverIdInputs :
               Start(r, d) => (Sent /\ res'.to = OpenOn(r))
     /\ (res'.op = "complete" /\ res'.code = 200)
          => \A r \in RideIdInputs, body \in CompleteBodyInputs :
               Complete(r, body)
                 => IF rides'[r].status # rides[r].status
                      THEN Sent /\ res'.to = OpenOn(r)
                      ELSE ~Sent /\ res'.to = {}
     /\ (res'.op = "cancel" /\ res'.code = 200)
          => \A r \in RideIdInputs, u \in UserIdInputs :
               Cancel(r, u) => (Sent /\ res'.to = OpenOn(r))
     /\ (res'.op = "confirm-delivery" /\ res'.code = 200)
          => \A r \in RideIdInputs, near \in BOOLEAN, ok \in BOOLEAN :
               ConfirmDelivery(r, near, ok) => (Sent /\ res'.to = OpenOn(r))]_vars

\* C13 witness: the accepted status of the requested ride went to its one
\* open subscriber and not to the open connection watching the seeded ride.
C13_Witness ==
  /\ res.op = "accept"
  /\ res.code = 200
  /\ res.to = {"ws1"}
  /\ conns["ws1"].subscribedRideId = "new-ride-1"
  /\ conns["ws2"].subscribedRideId = "demo-ride-1"
  /\ conns["ws2"].state = "open"

\* C14: each connection is in at most one ride's subscriber set, the set of
\* the ride id of its most recent subscribe: a subscribe to ride r leaves the
\* connection in the set of r and in no other.
C14_OneSubscriptionPerConnection ==
  /\ [](\A c \in Conns :
          \A k \in DOMAIN rideSubscriptions :
            c \in rideSubscriptions[k] => conns[c].subscribedRideId = k)
  /\ [][res'.op = "subscribe"
          => \A c \in Conns, r \in LiveRideIdInputs :
               Subscribe(c, r)
                 => /\ {k \in DOMAIN rideSubscriptions' : c \in rideSubscriptions'[k]} = {r}
                    /\ conns'[c].subscribedRideId = r]_vars

\* C14 witness: after a subscribe by ws1, which was sent the seeded ride's
\* last location, each connection is in the set of one ride, the two rides
\* differing.
C14_Witness ==
  /\ res.op = "subscribe"
  /\ DOMAIN rideSubscriptions = {"new-ride-1", "demo-ride-1"}
  /\ rideSubscriptions["demo-ride-1"] = {"ws1"}
  /\ rideSubscriptions["new-ride-1"] = {"ws2"}
  /\ res.to = {"ws1"}

\* C15: a connection that disconnects leaves its subscriber set in the same
\* step: no subscriber set holds a closed connection, no message is delivered
\* to one, and the close of a connection takes it out of every set.
C15_ClosedConnectionsUnsubscribed ==
  /\ [](\A k \in DOMAIN rideSubscriptions :
          \A c \in rideSubscriptions[k] : conns[c].state # "none")
  /\ [](\A c \in res.to : conns[c].state = "open")
  /\ [][res'.op = "close"
          => \A c \in Conns :
               Close(c)
                 => \A k \in DOMAIN rideSubscriptions' : c \notin rideSubscriptions'[k]]_vars

\* C15 witness: a connection has just closed and is in no set, while the
\* other connection stays subscribed to the seeded ride, which has a relayed
\* location.
C15_Witness ==
  /\ res.op = "close"
  /\ conns["ws1"].state = "none"
  /\ conns["ws2"].state = "open"
  /\ "demo-ride-1" \in DOMAIN rideLocations
  /\ DOMAIN rideSubscriptions = {"demo-ride-1"}
  /\ rideSubscriptions["demo-ride-1"] = {"ws2"}

\* C16: a connection that subscribes to a ride which has a last-known
\* location (set by an ingest, by accept or by start) is sent that location
\* at once as a location_update.
C16_SubscriberGetsLastLocation ==
  [][res'.op = "subscribe"
       => \A c \in Conns, r \in WsRideIdInputs :
            (HasRide(r) /\ rides[r].currentLocation # None /\ Subscribe(c, r))
              => /\ res'.to = {c}
                 /\ res'.msg # None
                 /\ Val(res'.msg).type = "location_update"
                 /\ Loc(Val(res'.msg).data.lat, Val(res'.msg).data.lng)
                      = Val(rides[r].currentLocation)]_vars

C18_RelayClearedAtEnd ==
  [][/\ (res'.op = "complete" /\ res'.code = 200)
          => \A r \in RideIdInputs, body \in CompleteBodyInputs :
               (HasRide(r) /\ rides[r].status = "in_progress" /\ Complete(r, body))
                 => (rides'[r].status = "completed"
                     /\ r \notin DOMAIN rideLocations')
     /\ (res'.op = "cancel" /\ res'.code = 200)
          => \A r \in RideIdInputs, u \in UserIdInputs :
               Cancel(r, u) => (rides'[r].status = "cancelled"
                                /\ r \notin DOMAIN rideLocations')
     /\ res'.op = "subscribe"
          => \A c \in Conns, r \in WsRideIdInputs :
               (r \notin DOMAIN rideLocations /\ Subscribe(c, r))
                 => (res'.msg = None /\ res'.to = {})]_vars

\* C18 witness: the ride was cancelled after a sample had been ingested for
\* it (its stored location is the sample's) and the relay has no entry for it.
C18_Witness ==
  /\ res.op = "cancel"
  /\ res.code = 200
  /\ "new-ride-1" \in DOMAIN rides
  /\ rides["new-ride-1"].status = "cancelled"
  /\ rides["new-ride-1"].currentLocation = Some(Loc(TimedSample.lat, TimedSample.lng))
  /\ "new-ride-1" \notin DOMAIN rideLocations

\* C19: no user has two rides in an active status in one role: no id is the
\* customerId of two active rides and none the driverId of two.
C19_OneActiveRidePerUserPerRole ==
  \A r1 \in DOMAIN rides, r2 \in DOMAIN rides :
    (/\ r1 # r2
     /\ rides[r1].status \in ActiveStatuses
     /\ rides[r2].status \in ActiveStatuses)
      => /\ rides[r1].customerId # rides[r2].customerId
         /\ rides[r1].driverId = Null \/ rides[r1].driverId # rides[r2].driverId

\* C20: a ride's actualFare is non-null only if its status is completed, and
\* then it is the ride's estimatedFare.
C20_ActualFareOnlyWhenCompleted ==
  \A r \in DOMAIN rides :
    rides[r].actualFare # None
      => /\ rides[r].status = "completed"
         /\ rides[r].actualFare = Some(rides[r].estimatedFare)

\* C20 witness: a complete call has just set the fare of the requested ride.
C20_Witness ==
  /\ res.op = "complete"
  /\ res.msg = RideStatusMsg([status |-> "completed"])
  /\ "new-ride-1" \in DOMAIN rides
  /\ rides["new-ride-1"].status = "completed"
  /\ rides["new-ride-1"].estimatedFare = 2000
  /\ rides["new-ride-1"].stakedAmount = 2300
  /\ rides["new-ride-1"].actualFare = Some(2000)

\* C21: in every reachable state and for every stored ride, completedAt is
\* non-null exactly when the ride's status is completed or cancelled.
C21_CompletedAtIffEnded ==
  \A r \in DOMAIN rides :
    (rides[r].completedAt # None) <=> (rides[r].status \in {"completed", "cancelled"})

\* C21 witness: the requested ride has just been cancelled and carries the
\* time of the cancel, while a seeded ride still waits without one.
C21_Witness ==
  /\ res.op = "cancel"
  /\ res.code = 200
  /\ "new-ride-1" \in DOMAIN rides
  /\ rides["new-ride-1"].status = "cancelled"
  /\ rides["new-ride-1"].completedAt # None
  /\ rides["demo-ride-1"].status = "waiting"
  /\ rides["demo-ride-1"].completedAt = None

\* C22: a rating submitted through complete changes no user but the other
\* party of the ride (the driver for completedBy = customer, the customer for
\* completedBy = driver) and never the party that submits it; the other
\* party's completedRides grows by one, its reputation by two up to 100, and
\* its avgRating becomes the tenth nearest to
\* (oldAvg * oldCount + rating) / (oldCount + 1), which for 4.0, 10 and 5 is 4.1;
\* a call without a rating changes no user.
C22_RatingUpdatesOtherPartyOnly ==
  [][(res'.op = "complete" /\ res'.code = 200)
       => \A r \in NewRideIds, body \in RatingBodyInputs :
            Complete(r, body)
              => LET ride == rides[r]
                     byCustomer == body.completedBy = "customer"
                     rater == IF byCustomer THEN ride.customerId ELSE ride.driverId
                     other == IF byCustomer THEN ride.driverId ELSE ride.customerId
                 IN
                 /\ DOMAIN users' = DOMAIN users
                 /\ \A u \in DOMAIN users \ {other} : users'[u] = users[u]
                 /\ HasUser(rater) => users'[rater] = users[rater]
                 /\ body.rating = None => users' = users
                 /\ (body.rating # None /\ HasUser(other))
                      => LET old == users[other]
                             new == users'[other]
                             sum == old.avgRating * old.completedRides
                                      + 10 * Val(body.rating)
                             n == old.completedRides + 1
                             diff == new.avgRating * n - sum
                         IN
                         /\ new.completedRides = n
                         /\ new.reputation =
                              (IF old.reputation + 2 > 100 THEN 100
                                                           ELSE old.reputation + 2)
                         /\ 2 * diff <= n /\ -2 * diff <= n
                         /\ (old.avgRating = 40 /\ old.completedRides = 10
                               /\ Val(body.rating) = 5) => new.avgRating = 41]_vars

\* C23: every user's reputation is within [0, 100] and avgRating within
\* [0, 5] (0 to 50 tenths), whatever rated complete calls were served.
C23_UserStatsInRange ==
  \A u \in DOMAIN users :
    /\ users[u].reputation >= 0 /\ users[u].reputation <= 100
    /\ users[u].avgRating >= 0 /\ users[u].avgRating <= 50

\* C23 witness: two ratings of 5 were credited to a driver who started a step
\* below the cap: the reputation stands at 100 and the average within range.
C23_Witness ==
  /\ res.op = "complete"
  /\ nRated = 2
  /\ users["demo-driver-1"].reputation = 100
  /\ users["demo-driver-1"].completedRides = 12
  /\ users["demo-driver-1"].avgRating = 42

\* C29: auth/connect creates a user only when no user has the wallet of the
\* request, and then exactly one, with that wallet; a connect with a wallet
\* some user has returns that user and creates none; so no two users share a
\* wallet, and no step removes a user.
C29_OneUserPerWallet ==
  /\ [](\A u1 \in DOMAIN users, u2 \in DOMAIN users :
          users[u1].walletAddress = users[u2].walletAddress => u1 = u2)
  /\ [][/\ DOMAIN users \subseteq DOMAIN users'
        /\ res'.op # "auth" => DOMAIN users' = DOMAIN users
        /\ res'.op = "auth"
             => \A w \in WalletInputs, role \in RoleInputs, pick \in NewUserStats :
                  AuthConnect(w, role, pick)
                    => LET had == {u \in DOMAIN users : users[u].walletAddress = w} IN
                       /\ res'.code = 200
                            => /\ res'.user \in DOMAIN users'
                               /\ users'[res'.user].walletAddress = w
                       /\ had # {} => users' = users
                       /\ (had # {} /\ role \in {"customer", "driver"})
                            => (res'.code = 200 /\ res'.user \in had)
                       /\ DOMAIN users' # DOMAIN users
                            => /\ had = {}
                               /\ res'.code = 200
                               /\ DOMAIN users' = DOMAIN users \cup {res'.user}
                               /\ \A u \in DOMAIN users : users'[u] = users[u]]_vars

\* C29 witness: after the unseen wallet had connected and a user was created
\* for it, the wallet of a seeded driver connected and was answered with that
\* driver; there are six users.
C29_Witness ==
  /\ res.op = "auth"
  /\ res.code = 200
  /\ res.user = "demo-driver-1"
  /\ "new-user-1" \in DOMAIN users
  /\ users["new-user-1"].walletAddress = "0xnew"
  /\ Cardinality(DOMAIN users) = 6

\* C30: a live-channel message that JSON.parse rejects or that fails the
\* message schema is dropped: the connection stays open and subscribed as it
\* was, nothing is sent, and the subscription registry, the location relay,
\* the users and the rides are unchanged.
C30_MalformedMessageDropped ==
  [][\A c \in Conns, raw \in MalformedRawInputs :
       OnMessage(c, raw)
         => /\ conns' = conns
            /\ conns'[c].state = "open"
            /\ res'.msg = None /\ res'.to = {}
            /\ UNCHANGED <<rideSubscriptions, rideLocations, users, rides>>]_vars

\* C30 witness: a message was dropped on a connection that is open and
\* subscribed to the requested ride, for which a location is relayed.
C30_Witness ==
  /\ res.op = "dropped"
  /\ conns["ws1"].state = "open"
  /\ conns["ws1"].subscribedRideId = "new-ride-1"
  /\ "new-ride-1" \in DOMAIN rideSubscriptions
  /\ "ws1" \in rideSubscriptions["new-ride-1"]
  /\ "new-ride-1" \in DOMAIN rideLocations
  /\ "new-ride-1" \in DOMAIN rides

\* C24: what the server sends to a connection reaches the connection's peer
\* in the order in which the server processed the events: the messages in
\* flight to a connection are in the order of their events and all later than
\* the one its peer received last, the peer never receives an earlier event
\* after a later one, and of two status messages in flight the one ahead is
\* the earlier status of the ride (accepted before in_progress, in_progress
\* before completed).
C24_BroadcastsArriveInOrder ==
  /\ [](\A c \in DOMAIN wire :
          /\ \A i \in 1..Len(wire[c]) : wire[c][i].seq > received[c]
          /\ \A i \in 1..Len(wire[c]), j \in 1..Len(wire[c]) :
               i < j
                 => /\ wire[c][i].seq < wire[c][j].seq
                    /\ (wire[c][i].msg.type = "ride_status"
                         /\ wire[c][j].msg.type = "ride_status")
                         => LET Rank(st) == CASE st = "accepted" -> 1
                                              [] st = "in_progress" -> 2
                                              [] OTHER -> 3
                            IN Rank(wire[c][i].msg.data.status)
                                 < Rank(wire[c][j].msg.data.status))
  /\ [][\A c \in DOMAIN wire : received'[c] >= received[c]]_vars

\* C24 witness: ws1, subscribed to the ride, has received a location sample;
\* the accepted and the in_progress status sent after it are in flight, in
\* that order.
C24_Witness ==
  /\ conns["ws1"].subscribedRideId = "new-ride-1"
  /\ received["ws1"] = 1
  /\ Len(wire["ws1"]) = 2
  /\ wire["ws1"][1].msg.type = "ride_status"
  /\ wire["ws1"][1].msg.data.status = "accepted"
  /\ wire["ws1"][2].msg.type = "ride_status"
  /\ wire["ws1"][2].msg.data.status = "in_progress"

\* C25: of two accept requests for the same waiting ride by different
\* drivers, neither of whom has an active ride, exactly one is answered 200
\* and the other 400, and the ride's driverId is that of the driver answered
\* 200; at most one handler is between two of its awaits at any time, and
\* from a handler's read of the ride to its write the stored ride is the
\* ride it read.
C25_ConcurrentAcceptsOneWins ==
  /\ \A q1 \in DOMAIN handlers, q2 \in DOMAIN handlers :
       (/\ q1 # q2
        /\ handlers[q1].pc = "done" /\ handlers[q2].pc = "done"
        /\ handlers[q1].rideId = handlers[q2].rideId
        /\ handlers[q1].driverId # handlers[q2].driverId)
         => /\ {handlers[q1].code, handlers[q2].code} = {200, 400}
            /\ handlers[q1].code = 200
                 => /\ rides[handlers[q1].rideId].driverId = handlers[q1].driverId
                    /\ rides[handlers[q1].rideId].status = "accepted"
  /\ Cardinality({q \in DOMAIN handlers : handlers[q].pc # "done"}) <= 1
  /\ \A q \in DOMAIN handlers :
       (handlers[q].pc \in {"getRide", "getActiveRide:none", "getUser"}
        /\ handlers[q].ride # None)
         => rides[handlers[q].rideId] = Val(handlers[q].ride)

\* C25 witness: both drivers asked for demo-ride-1; the first was answered
\* 200 and is the ride's driver, the second 400.
C25_Witness ==
  /\ DOMAIN handlers = {"q1", "q2"}
  /\ handlers["q1"] = Handler("demo-ride-1", "demo-driver-1", "done",
                              Some(rides["demo-ride-1"]),
                              DriverSummary("demo-driver-1"), 200)
  /\ handlers["q2"].rideId = "demo-ride-1"
  /\ handlers["q2"].driverId = "demo-driver-2"
  /\ handlers["q2"].code = 400
  /\ res.message = "Ride is no longer available"
  /\ rides["demo-ride-1"].driverId = "demo-driver-1"

\* C26: the client's reconnect logic (every close schedules one reconnect
\* attempt 3000 ms later) never leaves more than one reconnect timer pending
\* nor more than one connection that is connecting or open.
C26_OneReconnectOneConnection ==
  /\ Cardinality(timers) <= 1
  /\ Cardinality({k \in 1..Len(sockets) :
                    sockets[k] \in {"connecting", "open"}}) <= 1

\* C27: a ride_status message with data replaces, in the client's view of
\* the active ride, exactly the fields present in the data and keeps the
\* others; a view that is null stays null.
C27_RideStatusShallowMerge ==
  [][cres'.op = "onmessage" =>
      \A k \in 1..MaxSockets, m \in ClientMessageInputs :
        (/\ m.parses /\ m.type = "ride_status" /\ m.data # None
         /\ OnClientMessage(k, m)) =>
          IF activeRide = None
            THEN activeRide' = None
            ELSE LET prev == Val(activeRide)
                     data == Val(m.data)
                     view == Val(activeRide')
                 IN /\ activeRide' # None
                    /\ DOMAIN view = DOMAIN prev \cup DOMAIN data
                    /\ \A f \in DOMAIN view :
                         view[f] = IF f \in DOMAIN data THEN data[f] ELSE prev[f]
                    /\ currentLocation' = currentLocation]_vars

\* An accepted message has been merged into the waiting view of new-ride-1:
\* status and driver are the message's, id and pickup the view's.
C27_Witness ==
  /\ cres.op = "onmessage"
  /\ activeRide # None
  /\ Val(activeRide).id = "new-ride-1"
  /\ Val(activeRide).status = "accepted"
  /\ Val(activeRide).driverId = "demo-driver-1"
  /\ Val(activeRide).pickup = PickupA
  /\ "driver" \in DOMAIN Val(activeRide)

\* C28: sendLocationUpdate sends nothing when the client has no active ride
\* or no open connection, and otherwise sends one location_update on the
\* current connection, tagged with the id of the current active ride.
C28_LocationUpdateTaggedWithActiveRide ==
  [][cres'.op = "sendLocationUpdate" =>
      /\ (activeRide = None \/ wsRef = 0 \/ sockets[wsRef] # "open")
            => cres'.sent = None
      /\ cres'.sent # None =>
            /\ activeRide # None
            /\ Val(cres'.sent).type = "location_update"
            /\ Val(cres'.sent).rideId = Val(activeRide).id
            /\ Val(cres'.sent).data \in SampleInputs
            /\ cres'.on = wsRef
            /\ sockets[wsRef] = "open"
      /\ (activeRide # None /\ wsRef # 0 /\ sockets[wsRef] = "open")
            => cres'.sent # None]_vars

\* A location update went out on the second connection, after a reconnect,
\* for the ride the view was merged into.
C28_Witness ==
  /\ cres.op = "sendLocationUpdate"
  /\ cres.sent # None
  /\ Val(cres.sent).rideId = "demo-ride-1"
  /\ cres.on = 2
  /\ sockets = <<"closed", "open">>
  /\ Val(activeRide).status = "completed"

\* C31: GET /api/rides/available answers one entry for every ride whose
\* status is waiting and none for a ride in another status, so a ride is
\* missing from the first list read after it was accepted or cancelled.
C31_AvailableListsWaitingRides ==
  [][res'.op = "available" =>
      /\ res'.code = 200
      /\ \A a \in res'.list : a.rideId \in DOMAIN rides
      /\ \A r \in DOMAIN rides :
           Cardinality({a \in res'.list : a.rideId = r})
             = IF rides[r].status = "waiting" THEN 1 ELSE 0
      /\ rides' = rides]_vars

\* The list read after the requested ride was accepted and a seeded ride
\* cancelled: the two other seeded rides.
C31_Witness ==
  /\ res.op = "available"
  /\ "new-ride-1" \in DOMAIN rides
  /\ rides["new-ride-1"].status = "accepted"
  /\ rides["demo-ride-1"].status = "cancelled"
  /\ {a.rideId : a \in res.list} = {"demo-ride-2", "demo-ride-3"}

\* C32: a complete call changes a user's avgRating, completedRides or
\* reputation, or records customerRating or driverRating on the ride, only
\* if the ride's status is completed when the call returns.
C32_RatingOnlyOnCompletedRide ==
  [][res'.op = "complete" =>
      \A r \in RideIdInputs, body \in CompleteBodyInputs :
        (/\ HasRide(r)
         /\ Complete(r, body)
         /\ \/ users' # users
            \/ rides'[r].customerRating # rides[r].customerRating
            \/ rides'[r].driverRating # rides[r].driverRating)
          => rides'[r].status = "completed"]_vars

\* C33: while the client's ride context is torn down (its effect's cleanup
\* has run and the effect has not been set up again) no reconnect timer is
\* pending and no connection is connecting or open.
C33_NoReconnectAfterTeardown ==
  ~effectOn =>
    /\ timers = {}
    /\ \A k \in 1..Len(sockets) : sockets[k] \notin {"connecting", "open"}

\* C34: a client that has an active ride and an open connection is
\* eventually subscribed to that ride on the server, unless it loses the
\* ride or the connection first.
C34_ActiveRideEventuallySubscribed ==
  (activeRide # None /\ RefOpen(sockets, wsRef))
    ~> \/ activeRide = None
       \/ ~RefOpen(sockets, wsRef)
       \/ conns[ConnOf(wsRef)].subscribedRideId = ViewId(activeRide)

\* C35: the driverId of a ride names an existing user whose role is driver:
\* an accept whose driverId names no user, or a customer, does not succeed.
C35_DriverIdNamesADriver ==
  \A r \in DOMAIN rides :
    rides[r].driverId # Null =>
      /\ HasUser(rides[r].driverId)
      /\ users[rides[r].driverId].role = "driver"

\* C36: the location relay holds samples only for rides that exist in the
\* store and are neither completed nor cancelled.
C36_RelayOnlyForLiveRides ==
  \A r \in DOMAIN rideLocations :
    /\ HasRide(r)
    /\ rides[r].status \notin {"completed", "cancelled"}

\* C37: a live-channel message changes no user and no field of a ride but
\* its currentLocation: a location_update changes only currentLocation and
\* the relay entry, a subscribe or unsubscribe only the subscription
\* registry.
C37_LiveMessagesLeaveRidesAndUsers ==
  [][res'.op \in {"subscribe", "unsubscribe", "location_update"} =>
      /\ users' = users
      /\ DOMAIN rides' = DOMAIN rides
      /\ \A r \in DOMAIN rides :
           /\ DOMAIN rides'[r] = DOMAIN rides[r]
           /\ \A f \in DOMAIN rides[r] \ {"currentLocation"} :
                rides'[r][f] = rides[r][f]
      /\ res'.op = "location_update" =>
           UNCHANGED <<rideSubscriptions, conns>>
      /\ res'.op \in {"subscribe", "unsubscribe"} =>
           UNCHANGED <<rides, rideLocations>>]_vars

\* A location update was stored on the started ride: the ride has the
\* sample's position and is still in progress with its driver.
C37_Witness ==
  /\ res.op = "location_update"
  /\ "new-ride-1" \in DOMAIN rides
  /\ rides["new-ride-1"].status = "in_progress"
  /\ rides["new-ride-1"].driverId = "demo-driver-1"
  /\ rides["new-ride-1"].startedAt # None
  /\ rides["new-ride-1"].currentLocation = Some(Loc(TimedSample.lat, TimedSample.lng))
  /\ "new-ride-1" \in DOMAIN rideLocations

\* C38: once a ride's completedAt or actualFare is set it never changes,
\* whatever is called on the ride afterwards.
C38_CompletedAtAndFareAreFinal ==
  [][\A r \in DOMAIN rides :
       /\ rides[r].completedAt # None
            => rides'[r].completedAt = rides[r].completedAt
       /\ rides[r].actualFare # None
            => rides'[r].actualFare = rides[r].actualFare]_vars

\* C39: a ride whose status becomes completed was in_progress just before,
\* whichever endpoint makes the step.
C39_CompletedOnlyFromInProgress ==
  [][\A r \in DOMAIN rides :
       (rides'[r].status = "completed" /\ rides[r].status # "completed")
         => rides[r].status = "in_progress"]_vars

====
